---- MODULE Spec2Model ----
(***************************************************************************)
(* zipline.py: the request dispatcher (zipline/http.py) and the error      *)
(* taxonomy (zipline/errors.py).                                           *)
(*                                                                         *)
(* Python values are records [t, s, items]: t is the Python type, s the    *)
(* characters of a str/bytes/number as a sequence of chunks, items the     *)
(* members of a dict or list.  A body is a sequence of byte chunks; JSON   *)
(* bodies are flat (an object or array of scalars, or a scalar).           *)
(***************************************************************************)
EXTENDS Integers, Sequences, FiniteSets, TLC

VARIABLES
    server_url,     \* the URL the client was constructed with
    base_url, token, user_agent, session,   \* the fields of HTTPClient
    calls,          \* the calls of HTTPClient.request
    invocation,     \* the Client method being run (upload_file, shorten_url)
    cli,            \* the command line program
    pager,          \* the iteration of Client.iter_files
    scope,          \* the async with block that holds the client
    file,           \* a File object of the caller
    eval            \* the helper function being applied, its argument and result

vars ==
    <<server_url, base_url, token, user_agent, session, calls, invocation, cli, pager,
      scope, file, eval>>

\* what the dispatcher neither reads nor writes
client_vars == <<invocation, cli, pager, scope, file, eval>>

---------------------------------------------------------------------------
(* Bounds of the model. *)

\* The status codes a response may carry are MinStatus..MaxStatus.
MinStatus == 195
MaxStatus == 605

---------------------------------------------------------------------------
(* Python values. *)

PyStr(chunks) == [t |-> "str", s |-> chunks, items |-> <<>>]
PyBytes(chunks) == [t |-> "bytes", s |-> chunks, items |-> <<>>]
PyInt(n) == [t |-> "int", s |-> <<ToString(n)>>, items |-> <<>>]
PyScalar(type, word) == [t |-> type, s |-> <<word>>, items |-> <<>>]
PyDict(members) == [t |-> "dict", s |-> <<>>, items |-> members]
PyList(members) == [t |-> "list", s |-> <<>>, items |-> members]
PyNone == [t |-> "NoneType", s |-> <<>>, items |-> <<>>]

RECURSIVE Join(_)
Join(chunks) == IF chunks = <<>> THEN "" ELSE Head(chunks) \o Join(Tail(chunks))

RECURSIVE JoinReprs(_)
\* str(v), as an f-string field formats v
Format(v) ==
    CASE v.t = "str" -> Join(v.s)
      [] v.t = "bytes" -> "b'" \o Join(v.s) \o "'"
      [] v.t = "NoneType" -> "None"
      [] v.t = "list" -> "[" \o JoinReprs(v.items) \o "]"
      [] v.t = "dict" -> "{" \o JoinReprs(v.items) \o "}"
      [] OTHER -> Join(v.s)

JoinReprs(members) ==
    IF members = <<>> THEN ""
    ELSE LET m == Head(members)
             one == (IF m.k = "" THEN "" ELSE "'" \o m.k \o "': ")
                    \o (IF m.v.t = "str" THEN "'" \o Join(m.v.s) \o "'" ELSE Join(m.v.s))
         IN  one \o (IF Tail(members) = <<>> THEN "" ELSE ", " \o JoinReprs(Tail(members)))

\* dict.get(key, default): the last member with that key wins
RECURSIVE DictGet(_, _, _)
DictGet(members, key, default) ==
    IF members = <<>> THEN default
    ELSE LET last == members[Len(members)]
         IN  IF last.k = key THEN last.v
             ELSE DictGet(SubSeq(members, 1, Len(members) - 1), key, default)

---------------------------------------------------------------------------
(* Response bodies and their decoding. *)

Q == "\""
BadByte == "<0xFF>"
Whitespace == {" "}
JsonNumbers == {"0", "1", "42"}

DecodeOk(v) == [ok |-> TRUE, val |-> v, exc |-> "", next |-> 0]
DecodeFail(cls) == [ok |-> FALSE, val |-> PyNone, exc |-> cls, next |-> 0]
ParseAt(v, n) == [ok |-> TRUE, val |-> v, exc |-> "", next |-> n]

\* bytes.decode("utf-8", errors="strict")
Utf8Decode(body) ==
    IF \E i \in 1..Len(body) : body[i] = BadByte
    THEN DecodeFail("UnicodeDecodeError")
    ELSE DecodeOk(PyStr(body))

\* a JSON scalar starting at chunk i of toks
ScalarAt(toks, i) ==
    IF i > Len(toks) THEN DecodeFail("JSONDecodeError")
    ELSE IF toks[i] = Q
         THEN IF i + 1 <= Len(toks) /\ toks[i + 1] = Q
              THEN ParseAt(PyStr(<<>>), i + 2)
              ELSE IF i + 2 <= Len(toks) /\ toks[i + 2] = Q
                   THEN ParseAt(PyStr(<<toks[i + 1]>>), i + 3)
                   ELSE DecodeFail("JSONDecodeError")
         ELSE IF toks[i] \in JsonNumbers THEN ParseAt(PyScalar("int", toks[i]), i + 1)
         ELSE IF toks[i] \in {"true", "false"} THEN ParseAt(PyScalar("bool", toks[i]), i + 1)
         ELSE IF toks[i] = "null" THEN ParseAt(PyNone, i + 1)
         ELSE DecodeFail("JSONDecodeError")

\* the members of a JSON object from chunk i on, up to and including "}"
RECURSIVE MembersAt(_, _, _)
MembersAt(toks, i, acc) ==
    LET key == ScalarAt(toks, i)
    IN  IF ~key.ok \/ key.val.t # "str" THEN DecodeFail("JSONDecodeError")
        ELSE IF key.next > Len(toks) \/ toks[key.next] # ":" THEN DecodeFail("JSONDecodeError")
        ELSE LET val == ScalarAt(toks, key.next + 1)
             IN  IF ~val.ok \/ val.next > Len(toks) THEN DecodeFail("JSONDecodeError")
                 ELSE LET got == Append(acc, [k |-> Join(key.val.s), v |-> val.val])
                      IN  IF toks[val.next] = "}" THEN ParseAt(PyDict(got), val.next + 1)
                          ELSE IF toks[val.next] = "," THEN MembersAt(toks, val.next + 1, got)
                          ELSE DecodeFail("JSONDecodeError")

\* the elements of a JSON array from chunk i on, up to and including "]"
RECURSIVE ElementsAt(_, _, _)
ElementsAt(toks, i, acc) ==
    LET val == ScalarAt(toks, i)
    IN  IF ~val.ok \/ val.next > Len(toks) THEN DecodeFail("JSONDecodeError")
        ELSE LET got == Append(acc, [k |-> "", v |-> val.val])
             IN  IF toks[val.next] = "]" THEN ParseAt(PyList(got), val.next + 1)
                 ELSE IF toks[val.next] = "," THEN ElementsAt(toks, val.next + 1, got)
                 ELSE DecodeFail("JSONDecodeError")

\* json.loads(string): one JSON value and nothing after it
to_json(text) ==
    LET toks == SelectSeq(text.s, LAMBDA x : x \notin Whitespace)
        top == IF toks = <<>> THEN DecodeFail("JSONDecodeError")
               ELSE IF toks[1] = "{"
                    THEN IF Len(toks) >= 2 /\ toks[2] = "}" THEN ParseAt(PyDict(<<>>), 3)
                         ELSE MembersAt(toks, 2, <<>>)
               ELSE IF toks[1] = "["
                    THEN IF Len(toks) >= 2 /\ toks[2] = "]" THEN ParseAt(PyList(<<>>), 3)
                         ELSE ElementsAt(toks, 2, <<>>)
               ELSE ScalarAt(toks, 1)
    IN  IF top.ok /\ top.next = Len(toks) + 1 THEN DecodeOk(top.val)
        ELSE DecodeFail("JSONDecodeError")

NoHeader == "<None>"

\* headers.get(key): the value, or None when the header is absent
HeaderGet(headers, key) == IF key \in DOMAIN headers THEN headers[key] ELSE NoHeader

\* a variant that takes any content type starting with application/json as JSON
json_text_or_bytes_prefix(response) ==
    LET content_type == HeaderGet(response.headers, "Content-Type")
    IN  IF content_type = "application/octet-stream"
        THEN DecodeOk(PyBytes(response.body))
        ELSE LET text == Utf8Decode(response.body)
             IN  IF ~text.ok THEN text
                 ELSE IF content_type \in {"application/json", "application/json; charset=utf-8"}
                      THEN to_json(text.val)
                 ELSE text

json_text_or_bytes(response) ==
    LET content_type == HeaderGet(response.headers, "Content-Type")
    IN  IF content_type = "application/octet-stream"
        THEN DecodeOk(PyBytes(response.body))
        ELSE LET text == Utf8Decode(response.body)
             IN  IF ~text.ok THEN text
                 ELSE IF content_type = "application/json" THEN to_json(text.val)
                 ELSE text

---------------------------------------------------------------------------
(* The error taxonomy (zipline/errors.py). *)

\* each exception class and its base class
Bases ==
    [ZiplineError |-> "Exception", HTTPError |-> "ZiplineError",
     UnhandledError |-> "HTTPError", BadRequest |-> "HTTPError",
     Forbidden |-> "HTTPError", NotFound |-> "HTTPError",
     PayloadTooLarge |-> "HTTPError", RateLimited |-> "HTTPError",
     ServerError |-> "HTTPError", NotAuthenticated |-> "HTTPError",
     TypeError |-> "Exception", ValueError |-> "Exception",
     JSONDecodeError |-> "ValueError", UnicodeDecodeError |-> "ValueError"]

RECURSIVE Ancestors(_)
Ancestors(cls) == IF cls \in DOMAIN Bases THEN {cls} \cup Ancestors(Bases[cls]) ELSE {cls}

IsInstance(exc, cls) == cls \in Ancestors(exc.cls)

FString(s) == IF s = "" THEN PyStr(<<>>) ELSE PyStr(<<s>>)

NoExc == [cls |-> "", args |-> <<>>, attrs |-> {}, message |-> PyNone, code |-> PyNone]

\* Exception(*args): no attribute besides args
PlainException(cls, args) ==
    [cls |-> cls, args |-> args, attrs |-> {}, message |-> PyNone, code |-> PyNone]

\* the TypeError of a call whose arguments do not fit HTTPError.__init__(self, message, code)
ArityError(given) ==
    PlainException("TypeError",
        <<FString(CASE given = 0 ->
                       "HTTPError.__init__() missing 2 required positional arguments: 'message' and 'code'"
                    [] given = 1 ->
                       "HTTPError.__init__() missing 1 required positional argument: 'code'"
                    [] OTHER ->
                       "HTTPError.__init__() takes 3 positional arguments but "
                           \o ToString(given + 1) \o " were given")>>)

\* HTTPError.__init__(self, message, code)
HTTPErrorInit(cls, message, code) ==
    [cls |-> cls, args |-> <<FString(Format(code) \o ": " \o Format(message))>>,
     attrs |-> {"message", "code"}, message |-> message, code |-> code]

\* The exception that `raise cls(*args)` propagates: the new instance, or the
\* TypeError of the constructor call when the arguments do not fit __init__.
Raise(cls, args) ==
    IF "HTTPError" \in Ancestors(cls)
    THEN IF Len(args) = 2 THEN HTTPErrorInit(cls, args[1], args[2])
         ELSE ArityError(Len(args))
    ELSE PlainException(cls, args)

---------------------------------------------------------------------------
(* The dispatcher (zipline/http.py, HTTPClient). *)

Route(method, path) == [method |-> method, path |-> path]

\* dict.update: the keys of other override those of headers
Update(headers, other) ==
    [k \in DOMAIN headers \cup DOMAIN other |->
        IF k \in DOMAIN other THEN other[k] ELSE headers[k]]

NoHeaders == [k \in {} |-> ""]

\* a variant that forces the JSON content type before merging the caller's headers
RequestHeadersJsonFirst(kwargs) ==
    LET defaults == [k \in {"User-Agent", "Authorization"} |->
                        IF k = "User-Agent" THEN user_agent ELSE token]
        forced == IF "json" \in kwargs.keys
                  THEN Update(defaults, [k \in {"Content-Type"} |-> "application/json"])
                  ELSE defaults
    IN  IF "headers" \in kwargs.keys THEN Update(forced, kwargs.headers) ELSE forced

\* a variant that sends the token as a bearer credential
RequestHeadersBearer(kwargs) ==
    LET defaults == [k \in {"User-Agent", "Authorization"} |->
                        IF k = "User-Agent" THEN user_agent ELSE "Bearer " \o token]
        merged == IF "headers" \in kwargs.keys THEN Update(defaults, kwargs.headers)
                  ELSE defaults
    IN  IF "json" \in kwargs.keys
        THEN Update(merged, [k \in {"Content-Type"} |-> "application/json"])
        ELSE merged

\* request, lines 97-106: the headers handed to session.request
RequestHeaders(kwargs) ==
    LET defaults == [k \in {"User-Agent", "Authorization"} |->
                        IF k = "User-Agent" THEN user_agent ELSE token]
        merged == IF "headers" \in kwargs.keys THEN Update(defaults, kwargs.headers)
                  ELSE defaults
    IN  IF "json" \in kwargs.keys
        THEN Update(merged, [k \in {"Content-Type"} |-> "application/json"])
        ELSE merged

Returned(value) == [kind |-> "return", value |-> value, exc |-> NoExc]
Raised(exc) == [kind |-> "raise", value |-> PyNone, exc |-> exc]
Pending == [kind |-> "none", value |-> PyNone, exc |-> NoExc]

\* a variant that takes only 200 as success
IsSuccessOnly200(status) == status = 200

\* request, line 127
IsSuccess(status) == 200 <= status /\ status < 300

\* request, lines 113-130: the outcome for a status and the decoded body
StatusOutcome(status, data) ==
    LET error == IF data.t = "dict" THEN DictGet(data.items, "error", PyStr(<<>>)) ELSE data
    IN  IF status = 400 THEN Raised(Raise("BadRequest", <<FString("400: " \o Format(error))>>))
        ELSE IF status = 401 THEN Raised(Raise("NotAuthenticated", <<FString(Format(error))>>))
        ELSE IF status = 403
             THEN Raised(Raise("Forbidden", <<FString("You cannot access this resource.")>>))
        ELSE IF status = 404
             THEN Raised(Raise("NotFound", <<FString("Requested resource not found.")>>))
        ELSE IF 405 <= status /\ status < 500
             THEN Raised(Raise("ZiplineError",
                               <<FString(ToString(status) \o ": " \o Format(error))>>))
        ELSE IF status >= 500 THEN Raised(Raise("ServerError", <<FString(ToString(status))>>))
        ELSE IF IsSuccess(status) THEN Returned(data)
        ELSE Raised(Raise("UnhandledError", <<>>))

\* request, lines 109-130: map the status of a response whose body decoded to
\* data; an exception of the decoding propagates
ResponseOutcome(resp, data) ==
    IF data.ok THEN StatusOutcome(resp.status, data.val)
    ELSE Raised(PlainException(data.exc, <<>>))

---------------------------------------------------------------------------
(* Inputs. *)

Token == "tok-abc"

\* server URLs as chunks: scheme, "://", host, then whatever follows
ServerURLs ==
    {<<"https", "://", "zipline.example">>,
     <<"https", "://", "zipline.example", "/dashboard">>}

\* URL(base_url).scheme: empty when the string has no "://"
UrlScheme(url) == IF Len(url) >= 2 /\ url[2] = "://" THEN url[1] ELSE ""

\* URL(base_url).host: the host without user info and port, None when the
\* string has no "://"
UrlHost(url) ==
    IF UrlScheme(url) = "" THEN "None"
    ELSE LET i == IF Len(url) >= 4 /\ url[4] = "@" THEN 5 ELSE 3
         IN  IF i <= Len(url) THEN url[i] ELSE "None"

\* HTTPClient.__init__, line 70
BaseUrl(url) == UrlScheme(url) \o "://" \o UrlHost(url)

LibVersion == "0.28.0"
PythonVersion == "3.11.0"
AiohttpVersion == "3.9.0"

Headers1(k, v) == [x \in {k} |-> v]

Kwargs(keys, headers) == [keys |-> keys, headers |-> headers]

\* the arguments of a call of request: the route, and the keyword arguments given
CallArgs ==
    {[route |-> Route("GET", "/api/user/stats"), kwargs |-> Kwargs({}, NoHeaders)],
     [route |-> Route("GET", "/api/user/files"), kwargs |-> Kwargs({"params"}, NoHeaders)],
     [route |-> Route("POST", "/api/user/folders"), kwargs |-> Kwargs({"json"}, NoHeaders)],
     [route |-> Route("POST", "/api/user/tags"), kwargs |-> Kwargs({"headers", "json"}, NoHeaders)],
     [route |-> Route("POST", "/api/user/urls"),
      kwargs |-> Kwargs({"headers", "json"}, Headers1("X-Zipline-Max-Views", "1"))],
     [route |-> Route("POST", "/api/upload"),
      kwargs |-> Kwargs({"headers", "data"}, Headers1("X-Zipline-Image-Compression-Percent", "0"))],
     [route |-> Route("PATCH", "/api/user"),
      kwargs |-> Kwargs({"headers", "json"}, Headers1("Content-Type", "text/plain"))],
     [route |-> Route("POST", "/api/user/avatar"),
      kwargs |-> Kwargs({"headers", "data"}, Headers1("Content-Type", "application/json"))],
     [route |-> Route("DELETE", "/api/user/files/1"),
      kwargs |-> Kwargs({"headers"},
                        [k \in {"Authorization", "User-Agent"} |->
                            IF k = "Authorization" THEN "Bearer other" ELSE "curl/8"])]}

Statuses == MinStatus..MaxStatus

ResponseHeaders ==
    {NoHeaders,
     Headers1("Content-Type", "application/json"),
     Headers1("Content-Type", "application/json; charset=utf-8"),
     Headers1("Content-Type", "application/octet-stream"),
     Headers1("Content-Type", "text/plain")}

Bodies ==
    {<<"{", Q, "error", Q, ":", " ", Q, "bad input", Q, "}">>,
     <<"{", Q, "error", Q, ":", Q, "not found", Q, "}">>,
     <<"{", Q, "id", Q, ":", " ", "42", "}">>,
     <<"[", Q, "a", Q, ",", " ", Q, "b", Q, "]">>,
     <<"oops">>,
     <<>>,
     <<BadByte, "PNG">>}

Responses == [status : Statuses, headers : ResponseHeaders, body : Bodies]

---------------------------------------------------------------------------
(* State and operations. *)

Calls == {1}

NoResponse == [status |-> 0, headers |-> NoHeaders, body |-> <<>>]

IdleCall ==
    [pc |-> "idle", route |-> Route("", ""), kwargs |-> Kwargs({}, NoHeaders),
     resp |-> NoResponse, data |-> DecodeOk(PyNone), outcome |-> Pending]

\* HTTPClient.__init__
HTTPClientInit(server, tok) ==
    /\ server_url = server
    /\ base_url = BaseUrl(server)
    /\ token = tok
    /\ session = [closed |-> FALSE, log |-> <<>>]
    /\ user_agent = "zipline.py v" \o LibVersion \o " - Python-" \o PythonVersion
                        \o " aiohttp-" \o AiohttpVersion

NoInvocation == [pc |-> "none", method |-> "", opts |-> <<>>, outcome |-> Pending]
NoCli == [pc |-> "none", cmd |-> "", exit_code |-> -1, traceback |-> FALSE]
NoPager ==
    [pc |-> "none", page_num |-> 0, pages |-> {}, current |-> <<>>, received |-> <<>>,
     reported |-> <<>>, yielded |-> <<>>]
NoScope == [pc |-> "none", exc |-> ""]
NoFile == [id |-> "", url |-> {}, tags |-> {}]
NoEval == [fn |-> "", arg |-> <<>>, out |-> <<>>, applied |-> FALSE]

\* nothing but the dispatcher is in use
ClientUnused ==
    /\ invocation = NoInvocation
    /\ cli = NoCli
    /\ pager = NoPager
    /\ scope = NoScope
    /\ file = NoFile
    /\ eval = NoEval

Init ==
    /\ \E server \in ServerURLs : HTTPClientInit(server, Token)
    /\ calls = [c \in Calls |-> IdleCall]
    /\ ClientUnused

\* request, lines 93-108, for given arguments: build the URL and the headers,
\* hand the request to the session
SessionRequest(c, args) ==
    /\ session' = [session EXCEPT !.log =
            Append(@, [call |-> c,
                       method |-> args.route.method,
                       url |-> base_url \o args.route.path,
                       headers |-> RequestHeaders(args.kwargs),
                       passed |-> args.kwargs.keys \ {"headers"}])]
    /\ calls' = [calls EXCEPT ![c] =
            [@ EXCEPT !.pc = "sent", !.route = args.route, !.kwargs = args.kwargs]]

\* a call of request with arguments from the set
RequestSend(c, inputs) ==
    /\ calls[c].pc = "idle"
    /\ \E args \in inputs : SessionRequest(c, args)
    /\ UNCHANGED <<server_url, base_url, token, user_agent>>
    /\ UNCHANGED client_vars

\* the server's response to the request of call c arrives
Respond(c, responses) ==
    /\ calls[c].pc = "sent"
    /\ \E resp \in responses :
        calls' = [calls EXCEPT ![c] = [@ EXCEPT !.pc = "responded", !.resp = resp]]
    /\ UNCHANGED <<server_url, base_url, token, user_agent, session>>
    /\ UNCHANGED client_vars

\* a variant that sends the request again after a 429 or a 5xx response
RequestCompleteRetry(c) ==
    /\ calls[c].pc = "responded"
    /\ LET resp == calls[c].resp
           data == json_text_or_bytes(resp)
       IN  IF resp.status = 429 \/ resp.status >= 500
           THEN /\ session' = [session EXCEPT !.log =
                        Append(@, [session.log[Len(session.log)] EXCEPT !.call = c])]
                /\ calls' = [calls EXCEPT ![c] = [@ EXCEPT !.pc = "sent"]]
           ELSE /\ session' = session
                /\ calls' = [calls EXCEPT ![c] =
                        [@ EXCEPT !.pc = "done", !.data = data,
                                  !.outcome = ResponseOutcome(resp, data)]]
    /\ UNCHANGED <<server_url, base_url, token, user_agent>>
    /\ UNCHANGED client_vars

\* a variant that takes the response from a place the calls in flight share:
\* it reads the response of the first call that has one
CompletionShared(c) ==
    LET d == CHOOSE d \in DOMAIN calls :
                /\ calls[d].pc = "responded"
                /\ \A e \in DOMAIN calls : calls[e].pc = "responded" => d <= e
        resp == calls[d].resp
        data == json_text_or_bytes(resp)
    IN  calls' = [calls EXCEPT ![c] =
            [@ EXCEPT !.pc = "done", !.data = data,
                      !.outcome = ResponseOutcome(resp, data)]]

\* request, lines 109-130: the body is decoded and the call returns or raises
Completion(c) ==
    LET resp == calls[c].resp
        data == json_text_or_bytes(resp)
    IN  calls' = [calls EXCEPT ![c] =
            [@ EXCEPT !.pc = "done", !.data = data,
                      !.outcome = ResponseOutcome(resp, data)]]

\* a call of request made on its own completes
RequestComplete(c) ==
    /\ calls[c].pc = "responded"
    /\ Completion(c)
    /\ UNCHANGED <<server_url, base_url, token, user_agent, session>>
    /\ UNCHANGED client_vars

Next ==
    \/ \E c \in Calls : RequestSend(c, CallArgs)
    \/ \E c \in Calls : Respond(c, Responses)
    \/ \E c \in Calls : RequestComplete(c)

Spec == Init /\ [][Next]_vars

---------------------------------------------------------------------------
(* Properties of HTTPClient.request. *)

Finished(c) == calls[c].pc = "done"
Status(c) == calls[c].resp.status
Outcome(c) == calls[c].outcome
\* the call is over and the body of its response decoded
Mapped(c) == Finished(c) /\ calls[c].data.ok
\* the requests of call c that the session was handed
RequestsOf(c) == {i \in 1..Len(session.log) : session.log[i].call = c}

SpecificStatuses == {400, 401, 403, 404, 413, 429}

ErrorTypeOf(status) ==
    CASE status = 400 -> "BadRequest"
      [] status = 401 -> "NotAuthenticated"
      [] status = 403 -> "Forbidden"
      [] status = 404 -> "NotFound"
      [] status = 413 -> "PayloadTooLarge"
      [] status = 429 -> "RateLimited"
      [] OTHER -> ""

\* C1: for each status s in {400, 401, 403, 404, 413, 429} request raises
\* exactly the error type assigned to s, and the error's code equals s.
C1_ExactErrorTypes ==
    \A c \in DOMAIN calls :
        (Mapped(c) /\ Status(c) \in SpecificStatuses) =>
            /\ Outcome(c).kind = "raise"
            /\ Outcome(c).exc.cls = ErrorTypeOf(Status(c))
            /\ "code" \in Outcome(c).exc.attrs
            /\ Outcome(c).exc.code = PyInt(Status(c))

\* C2, as claimed: for every response with a status in 200..299 request
\* returns the decoded body and raises no error, whatever the body and
\* whatever the content type.
C2_SuccessAlwaysReturns ==
    \A c \in DOMAIN calls :
        (Finished(c) /\ Status(c) \in 200..299) => Outcome(c).kind = "return"

\* C2, amended: for every response with a status in 200..299 whose body
\* decodes under its content type, request returns the decoded body unchanged
\* and raises no error; when the body does not decode (text that is not UTF-8,
\* or application/json that is not JSON) the decoding error propagates and
\* nothing is returned.
C2_SuccessReturnsDecodedBody ==
    \A c \in DOMAIN calls :
        (Finished(c) /\ Status(c) \in 200..299) =>
            IF calls[c].data.ok
            THEN Outcome(c) = Returned(calls[c].data.val)
            ELSE /\ Outcome(c).kind = "raise"
                 /\ Outcome(c).exc.cls \in {"JSONDecodeError", "UnicodeDecodeError"}

\* a 204 response with a text body has been returned to the caller
C2_Witness ==
    \E c \in DOMAIN calls :
        /\ Finished(c) /\ Status(c) = 204
        /\ calls[c].resp.body = <<"oops">>
        /\ Outcome(c) = Returned(PyStr(<<"oops">>))

\* C3: for a non-2xx response request never returns a value, and raises one
\* error that is an instance of HTTPError carrying a message and a code equal
\* to the status received.
C3_OneTypedError ==
    \A c \in DOMAIN calls :
        (Mapped(c) /\ Status(c) \notin 200..299) =>
            /\ Outcome(c).kind = "raise"
            /\ IsInstance(Outcome(c).exc, "HTTPError")
            /\ {"message", "code"} \subseteq Outcome(c).exc.attrs
            /\ Outcome(c).exc.code = PyInt(Status(c))

\* C4: when a non-2xx body decodes to a JSON object with the key "error" the
\* raised error's message is the value of that key, and otherwise it is the
\* raw decoded body.
C4_MessageFromErrorField ==
    \A c \in DOMAIN calls :
        (Mapped(c) /\ Status(c) \notin 200..299) =>
            LET data == calls[c].data.val
                hasError == data.t = "dict" /\ \E i \in 1..Len(data.items) : data.items[i].k = "error"
            IN  /\ Outcome(c).kind = "raise"
                /\ "message" \in Outcome(c).exc.attrs
                /\ Outcome(c).exc.message =
                        IF hasError THEN DictGet(data.items, "error", PyNone) ELSE data

\* C5: for every status in 405..499 other than 413 and 429 request raises the
\* generic client-error type and none of the specific subtypes; for every
\* status in 500..599 it raises ServerError.
C5_GenericAndServerErrors ==
    \A c \in DOMAIN calls :
        /\ (Mapped(c) /\ Status(c) \in (405..499) \ {413, 429}) =>
                (Outcome(c).kind = "raise" /\ Outcome(c).exc.cls = "ZiplineError")
        /\ (Mapped(c) /\ Status(c) \in 500..599) =>
                (Outcome(c).kind = "raise" /\ Outcome(c).exc.cls = "ServerError")

\* C6: request raises UnhandledError if and only if the status is below 200,
\* in 300..399, equal to 402, or at or above 600.
C6_UnhandledIffUnmapped ==
    \A c \in DOMAIN calls :
        Mapped(c) =>
            ((Outcome(c).kind = "raise" /\ Outcome(c).exc.cls = "UnhandledError")
                <=> (Status(c) < 200 \/ Status(c) \in 300..399 \/ Status(c) = 402
                        \/ Status(c) >= 600))

\* C7: each call of request hands exactly one request to the session and
\* never sends it again, whatever status is received and whether the call
\* returns or raises.
C7_OneRequestPerCall ==
    \A c \in DOMAIN calls :
        Cardinality(RequestsOf(c)) = IF calls[c].pc = "idle" THEN 0 ELSE 1

\* a call that received 429 has raised, having sent one request
C7_Witness ==
    \E c \in DOMAIN calls :
        /\ Finished(c) /\ Status(c) = 429 /\ Outcome(c).kind = "raise"
        /\ Cardinality(RequestsOf(c)) = 1

\* C8: with a json payload the request carries Content-Type application/json
\* whatever Content-Type the caller's headers give; with a data payload and no
\* json the dispatcher sets no Content-Type: the header is the caller's own, or
\* absent.
C8_JsonForcesContentType ==
    \A i \in 1..Len(session.log) :
        LET sent == session.log[i]
            kwargs == calls[sent.call].kwargs
            given == IF "headers" \in kwargs.keys THEN kwargs.headers ELSE NoHeaders
        IN  /\ "json" \in kwargs.keys =>
                    HeaderGet(sent.headers, "Content-Type") = "application/json"
            /\ ("data" \in kwargs.keys /\ "json" \notin kwargs.keys) =>
                    HeaderGet(sent.headers, "Content-Type") = HeaderGet(given, "Content-Type")

\* a request with a json payload was sent for a caller whose headers gave
\* Content-Type text/plain
C8_Witness ==
    \E i \in 1..Len(session.log) :
        LET kwargs == calls[session.log[i].call].kwargs
        IN  /\ {"json", "headers"} \subseteq kwargs.keys
            /\ HeaderGet(kwargs.headers, "Content-Type") = "text/plain"
            /\ session.log[i].headers["Content-Type"] = "application/json"

\* C9: the headers sent are the defaults (User-Agent, and Authorization equal
\* to the raw token) overridden key by key by the caller's headers: every
\* request carries both, every header of the caller is sent as given (but for
\* Content-Type under a json payload), and without a caller's Authorization
\* the value is the token itself.
C9_DefaultHeadersMerged ==
    \A i \in 1..Len(session.log) :
        LET sent == session.log[i]
            kwargs == calls[sent.call].kwargs
            given == IF "headers" \in kwargs.keys THEN kwargs.headers ELSE NoHeaders
        IN  /\ {"User-Agent", "Authorization"} \subseteq DOMAIN sent.headers
            /\ sent.headers["Authorization"] =
                    IF "Authorization" \in DOMAIN given THEN given["Authorization"] ELSE token
            /\ sent.headers["User-Agent"] =
                    IF "User-Agent" \in DOMAIN given THEN given["User-Agent"] ELSE user_agent
            /\ \A k \in DOMAIN given :
                    (k = "Content-Type" /\ "json" \in kwargs.keys) \/ sent.headers[k] = given[k]
            /\ DOMAIN sent.headers \subseteq
                    {"User-Agent", "Authorization", "Content-Type"} \cup DOMAIN given

\* a request was sent for a caller that gave headers but no Authorization, and
\* carries the token as its Authorization
C9_Witness ==
    \E i \in 1..Len(session.log) :
        LET kwargs == calls[session.log[i].call].kwargs
        IN  /\ "headers" \in kwargs.keys
            /\ kwargs.headers # NoHeaders
            /\ "Authorization" \notin DOMAIN kwargs.headers
            /\ session.log[i].headers["Authorization"] = Token

\* C10: the body is decoded by the exact value of Content-Type: exactly
\* application/json gives the parsed JSON value, exactly
\* application/octet-stream the raw bytes, and every other value (an absent
\* header, application/json followed by parameters) the body as UTF-8 text.
C10_DecodedByExactContentType ==
    \A c \in DOMAIN calls :
        Finished(c) =>
            LET resp == calls[c].resp
                data == calls[c].data
                text == Utf8Decode(resp.body)
            IN  IF resp.headers = Headers1("Content-Type", "application/octet-stream")
                THEN data = DecodeOk(PyBytes(resp.body))
                ELSE IF ~text.ok THEN ~data.ok /\ data.exc = "UnicodeDecodeError"
                ELSE IF resp.headers = Headers1("Content-Type", "application/json")
                THEN /\ data = to_json(PyStr(resp.body))
                     /\ data.ok => data.val.t \in {"dict", "list", "str", "int", "bool", "NoneType"}
                     /\ resp.body = <<"{", Q, "error", Q, ":", Q, "not found", Q, "}">> =>
                            data = DecodeOk(PyDict(<<[k |-> "error", v |-> PyStr(<<"not found">>)]>>))
                ELSE data = DecodeOk(PyStr(resp.body))

\* a JSON body sent as application/json with a charset parameter was decoded
\* as text
C10_Witness ==
    \E c \in DOMAIN calls :
        /\ Finished(c)
        /\ calls[c].resp.headers = Headers1("Content-Type", "application/json; charset=utf-8")
        /\ calls[c].resp.body = <<"{", Q, "error", Q, ":", Q, "not found", Q, "}">>
        /\ calls[c].data = DecodeOk(PyStr(calls[c].resp.body))

---------------------------------------------------------------------------
(* The base URL: HTTPClient.__init__ over a wider set of server URLs. *)

AllServerURLs ==
    ServerURLs \cup
    {<<"https", "://", "zipline.example", "/dashboard", "?", "tab=files">>,
     <<"https", "://", "zipline.example", "/">>,
     <<"http", "://", "localhost", ":", "3000">>,
     <<"http", "://", "localhost", ":", "3000", "/dashboard">>,
     <<"https", "://", "admin", "@", "zipline.example">>,
     <<"your_zipline_site.com">>}

FewResponses ==
    [status : {200, 404, 500},
     headers : {Headers1("Content-Type", "application/json")},
     body : {<<"{", Q, "id", Q, ":", " ", "42", "}">>,
             <<"{", Q, "error", Q, ":", Q, "not found", Q, "}">>}]

InitUrl ==
    /\ \E server \in AllServerURLs : HTTPClientInit(server, Token)
    /\ calls = [c \in Calls |-> IdleCall]
    /\ ClientUnused

NextUrl ==
    \/ \E c \in Calls : RequestSend(c, CallArgs)
    \/ \E c \in Calls : Respond(c, FewResponses)
    \/ \E c \in Calls : RequestComplete(c)

SpecUrl == InitUrl /\ [][NextUrl]_vars

\* the chunks of a URL before its path and query
BeforePathAndQuery(url) ==
    LET stops == {i \in 1..Len(url) : url[i] \in {"/", "/dashboard", "?"}}
    IN  IF stops = {} THEN url
        ELSE SubSeq(url, 1, (CHOOSE i \in stops : \A j \in stops : i <= j) - 1)

\* C11: the base URL is the server URL given at construction (one with a
\* scheme) with its path and query discarded and nothing else lost, and the
\* URL of every request is the base URL followed by route.path.
C11_BaseUrlKeepsAllButPath ==
    UrlScheme(server_url) # "" =>
        /\ base_url = Join(BeforePathAndQuery(server_url))
        /\ \A i \in 1..Len(session.log) :
                session.log[i].url = base_url \o calls[session.log[i].call].route.path

---------------------------------------------------------------------------
(* Helper functions (zipline/utils.py, zipline/color.py, zipline/models.py):
   each is applied once to an argument drawn from a bounded set. *)

dispatcher_vars == <<server_url, base_url, token, user_agent, session, calls>>

Eval(fn, arg) == [fn |-> fn, arg |-> arg, out |-> <<>>, applied |-> FALSE]

\* a client that is constructed and left alone while a helper function runs
ClientIdle ==
    /\ HTTPClientInit(<<"https", "://", "zipline.example">>, Token)
    /\ calls = [c \in Calls |-> IdleCall]
    /\ invocation = NoInvocation
    /\ cli = NoCli
    /\ pager = NoPager
    /\ scope = NoScope
    /\ file = NoFile

\* the number written by a sequence of decimal digits
RECURSIVE Num(_)
Num(digits) ==
    IF digits = <<>> THEN 0 ELSE 10 * Num(SubSeq(digits, 1, Len(digits) - 1)) + digits[Len(digits)]

RECURSIVE Pow(_, _)
Pow(b, e) == IF e = 0 THEN 1 ELSE b * Pow(b, e - 1)

\* n written in decimal with at least width digits, padded with zeros
Digits(n, width) == [i \in 1..width |-> (n \div Pow(10, width - i)) % 10]

\* n written in decimal without padding
RECURSIVE Unpadded(_)
Unpadded(n) == IF n < 10 THEN <<n>> ELSE Append(Unpadded(n \div 10), n % 10)

---------------------------------------------------------------------------
(* Timestamps: parse_iso_timestamp and to_iso_format.  A timestamp string is
   the sequence of its fields, each a sequence of decimal digits, and of the
   separators between them. *)

IsoString(Y, m, d, H, M, S, f) == <<Y, "-", m, "-", d, "T", H, ":", M, ":", S, ".", f, "Z">>

IsLeap(year) == year % 4 = 0 /\ (year % 100 # 0 \/ year % 400 = 0)

DaysInMonth(year, month) ==
    IF month = 2 THEN (IF IsLeap(year) THEN 29 ELSE 28)
    ELSE IF month \in {4, 6, 9, 11} THEN 30 ELSE 31

NoDatetime ==
    [year |-> 0, month |-> 0, day |-> 0, hour |-> 0, minute |-> 0, second |-> 0,
     microsecond |-> 0, tzinfo |-> "None"]

ParsedOk(dt) == [ok |-> TRUE, dt |-> dt, error |-> ""]
ParseError(cls) == [ok |-> FALSE, dt |-> NoDatetime, error |-> cls]

\* datetime.strptime(s, "%Y-%m-%dT%H:%M:%S.%fZ"): %Y takes four digits, %f one
\* to six, the other fields one or two; the datetime constructor rejects what
\* is out of range
strptime(s) ==
    IF \/ Len(s[1]) # 4
       \/ \E i \in {3, 5, 7, 9, 11} : Len(s[i]) \notin {1, 2}
       \/ Len(s[13]) \notin 1..6
       \/ Num(s[3]) \notin 1..12 \/ Num(s[5]) \notin 1..31
       \/ Num(s[7]) > 23 \/ Num(s[9]) > 59 \/ Num(s[11]) > 61
    THEN ParseError("ValueError")
    ELSE IF \/ Num(s[1]) = 0
            \/ Num(s[5]) > DaysInMonth(Num(s[1]), Num(s[3]))
            \/ Num(s[11]) > 59
    THEN ParseError("ValueError")
    ELSE ParsedOk([year |-> Num(s[1]), month |-> Num(s[3]), day |-> Num(s[5]),
                   hour |-> Num(s[7]), minute |-> Num(s[9]), second |-> Num(s[11]),
                   microsecond |-> Num(s[13]) * Pow(10, 6 - Len(s[13])),
                   tzinfo |-> "None"])

\* parse_iso_timestamp: strptime, then replace(tzinfo=timezone.utc)
parse_iso_timestamp(iso_str) ==
    LET naive == strptime(iso_str)
    IN  IF naive.ok THEN ParsedOk([naive.dt EXCEPT !.tzinfo = "UTC"]) ELSE naive

\* to_iso_format: dt.strftime("%Y-%m-%dT%H:%M:%S.%fZ").  The C library writes
\* %Y: glibc without padding, others with four digits.
to_iso_format(dt, pad_year) ==
    IsoString(IF pad_year THEN Digits(dt.year, 4) ELSE Unpadded(dt.year),
              Digits(dt.month, 2), Digits(dt.day, 2), Digits(dt.hour, 2),
              Digits(dt.minute, 2), Digits(dt.second, 2), Digits(dt.microsecond, 6))

Years == {<<0, 0, 0, 0>>, <<0, 0, 0, 1>>, <<0, 9, 9, 9>>, <<1, 0, 0, 0>>, <<1, 9, 0, 0>>,
          <<2, 0, 2, 3>>, <<2, 0, 2, 4>>, <<9, 9, 9, 9>>}
Months == {<<0, 1>>, <<0, 2>>, <<0, 4>>, <<1, 2>>, <<1, 3>>, <<2>>}
DaysOfMonth == {<<0, 1>>, <<2, 8>>, <<2, 9>>, <<3, 0>>, <<3, 1>>}
Hours == {<<0, 0>>, <<2, 3>>, <<2, 4>>}
MinutesOrSeconds == {<<0, 0>>, <<5, 9>>, <<6, 0>>}
Microseconds == {<<0, 0, 0, 0, 0, 0>>, <<0, 0, 0, 0, 0, 1>>, <<1, 2, 3, 4, 5, 6>>,
                 <<9, 9, 9, 9, 9, 9>>, <<5>>}

IsoStrings ==
    {IsoString(Y, m, d, H, M, M, f) :
        Y \in Years, m \in Months, d \in DaysOfMonth, H \in Hours,
        M \in MinutesOrSeconds, f \in Microseconds}

InitIso ==
    /\ ClientIdle
    /\ eval \in {Eval("parse_iso_timestamp", s) : s \in IsoStrings}

\* to_iso_format(parse_iso_timestamp(s))
IsoRoundTrip ==
    /\ eval.fn = "parse_iso_timestamp"
    /\ ~eval.applied
    /\ LET parsed == parse_iso_timestamp(eval.arg)
       IN  \E pad_year \in BOOLEAN :
            eval' = [eval EXCEPT !.applied = TRUE,
                        !.out = [parsed |-> parsed,
                                 text |-> IF parsed.ok THEN to_iso_format(parsed.dt, pad_year)
                                          ELSE <<>>]]
    /\ UNCHANGED dispatcher_vars
    /\ UNCHANGED <<invocation, cli, pager, scope, file>>

NextIso == IsoRoundTrip

SpecIso == InitIso /\ [][NextIso]_vars

\* the string has the exact form YYYY-MM-DDTHH:MM:SS.ffffffZ
ExactIsoForm(s) ==
    /\ Len(s[1]) = 4
    /\ \A i \in {3, 5, 7, 9, 11} : Len(s[i]) = 2
    /\ Len(s[13]) = 6

\* the string denotes a date and a time that exist
ValidDateTime(s) ==
    /\ Num(s[1]) \in 1..9999
    /\ Num(s[3]) \in 1..12
    /\ Num(s[5]) \in 1..DaysInMonth(Num(s[1]), Num(s[3]))
    /\ Num(s[7]) \in 0..23 /\ Num(s[9]) \in 0..59 /\ Num(s[11]) \in 0..59

\* C16: for every string s of the form YYYY-MM-DDTHH:MM:SS.ffffffZ that denotes
\* a valid date and time, parse_iso_timestamp(s) is a UTC-aware timestamp and
\* to_iso_format of it is s again.
C16_IsoRoundTrip ==
    (eval.fn = "parse_iso_timestamp" /\ eval.applied
            /\ ExactIsoForm(eval.arg) /\ ValidDateTime(eval.arg)) =>
        /\ eval.out.parsed.ok
        /\ eval.out.parsed.dt.tzinfo = "UTC"
        /\ eval.out.text = eval.arg

---------------------------------------------------------------------------
(* Quota payloads: generate_quota_payload. *)

\* MISSING, the sentinel that is the default of max_urls
MISSING == [t |-> "_MissingSentinel", s |-> <<>>, items |-> <<>>]

\* payload[key] = value
DictSet(members, key, value) ==
    IF \E i \in 1..Len(members) : members[i].k = key
    THEN [i \in 1..Len(members) |->
            IF members[i].k = key THEN [k |-> key, v |-> value] ELSE members[i]]
    ELSE Append(members, [k |-> key, v |-> value])

\* a variant that leaves maxUrls out whenever max_urls is falsy
generate_quota_payload_falsy(type, value, max_urls) ==
    LET first == <<[k |-> "filesType", v |-> FString(type)]>>
        second == CASE type = "BY_BYTES" -> DictSet(first, "maxBytes", FString(Format(value)))
                    [] type = "BY_FILES" -> DictSet(first, "maxFiles", value)
                    [] OTHER -> DictSet(DictSet(first, "maxBytes", PyNone), "maxFiles", PyNone)
    IN  PyDict(IF max_urls \notin {MISSING, PyNone, PyInt(0)}
               THEN DictSet(second, "maxUrls", max_urls) ELSE second)

\* generate_quota_payload, lines 270-290; type is the value of a QuotaType
generate_quota_payload(type, value, max_urls) ==
    LET first == <<[k |-> "filesType", v |-> FString(type)]>>
        second == CASE type = "BY_BYTES" -> DictSet(first, "maxBytes", FString(Format(value)))
                    [] type = "BY_FILES" -> DictSet(first, "maxFiles", value)
                    [] type = "NONE" ->
                            DictSet(DictSet(first, "maxBytes", PyNone), "maxFiles", PyNone)
                    [] OTHER -> first
    IN  PyDict(IF max_urls # MISSING THEN DictSet(second, "maxUrls", max_urls) ELSE second)

QuotaTypes == {"BY_BYTES", "BY_FILES", "NONE"}

QuotaValues == {PyNone} \cup {PyInt(n) : n \in {0, 1, 5, 1000, 1024, 1000000, 2147483647}}

MaxUrlsValues == {MISSING, PyNone} \cup {PyInt(n) : n \in {0, 1, 100}}

InitQuota ==
    /\ ClientIdle
    /\ eval \in {Eval("generate_quota_payload", [type |-> t, value |-> v, max_urls |-> u]) :
                    t \in QuotaTypes, v \in QuotaValues, u \in MaxUrlsValues}

GenerateQuotaPayload ==
    /\ eval.fn = "generate_quota_payload"
    /\ ~eval.applied
    /\ eval' = [eval EXCEPT !.applied = TRUE,
                    !.out = generate_quota_payload(eval.arg.type, eval.arg.value, eval.arg.max_urls)]
    /\ UNCHANGED dispatcher_vars
    /\ UNCHANGED <<invocation, cli, pager, scope, file>>

NextQuota == GenerateQuotaPayload

SpecQuota == InitQuota /\ [][NextQuota]_vars

\* the keys of a dict
Keys(dict) == {dict.items[i].k : i \in 1..Len(dict.items)}

\* the values stored under a key
ValuesAt(dict, key) == {dict.items[i].v : i \in {j \in 1..Len(dict.items) : dict.items[j].k = key}}

\* C15: generate_quota_payload gives, for by-bytes, maxBytes as the value
\* written as a string and no maxFiles; for by-files, maxFiles as the integer
\* value and no maxBytes; for none, maxBytes and maxFiles both present and
\* null whatever the value; and maxUrls is present, with the value given,
\* exactly when max_urls was given (null included).
C15_QuotaPayloadShape ==
    (eval.fn = "generate_quota_payload" /\ eval.applied) =>
        LET arg == eval.arg
            payload == eval.out
        IN  /\ payload.t = "dict"
            /\ arg.type = "BY_BYTES" =>
                    /\ "maxFiles" \notin Keys(payload)
                    /\ ValuesAt(payload, "maxBytes") =
                            {[t |-> "str", items |-> <<>>,
                              s |-> IF arg.value = PyNone THEN <<"None">> ELSE arg.value.s]}
            /\ arg.type = "BY_FILES" =>
                    /\ "maxBytes" \notin Keys(payload)
                    /\ ValuesAt(payload, "maxFiles") = {arg.value}
            /\ arg.type = "NONE" =>
                    /\ ValuesAt(payload, "maxBytes") = {PyNone}
                    /\ ValuesAt(payload, "maxFiles") = {PyNone}
            /\ ("maxUrls" \in Keys(payload)) <=> (arg.max_urls # MISSING)
            /\ arg.max_urls # MISSING => ValuesAt(payload, "maxUrls") = {arg.max_urls}

\* a payload for kind none, with a value and with max_urls given as null
C15_Witness ==
    /\ eval.fn = "generate_quota_payload" /\ eval.applied
    /\ eval.arg.type = "NONE" /\ eval.arg.value = PyInt(1000) /\ eval.arg.max_urls = PyNone
    /\ Keys(eval.out) = {"filesType", "maxBytes", "maxFiles", "maxUrls"}

---------------------------------------------------------------------------
(* Magic numbers: guess_mimetype_by_magicnumber.  Bytes are sequences of
   numbers in 0..255; an Optional value is a set with at most one member,
   None being the empty set. *)

\* data[start:stop]
Slice(data, start, stop) ==
    SubSeq(data, start + 1, IF stop < Len(data) THEN stop ELSE Len(data))

\* data.startswith(prefix)
StartsWith(data, prefix) == Slice(data, 0, Len(prefix)) = prefix

SigJpeg == <<255, 216, 255>>
SigJfif == <<74, 70, 73, 70>>
SigExif == <<69, 120, 105, 102>>
SigPng == <<137, 80, 78, 71, 13, 10, 26, 10>>
SigRiff == <<82, 73, 70, 70>>
SigWebp == <<87, 69, 66, 80>>
SigGif87a == <<71, 73, 70, 56, 55, 97>>
SigGif89a == <<71, 73, 70, 56, 57, 97>>
SigFtypMsnv == <<102, 116, 121, 112, 77, 83, 78, 86>>
SigFtypIsom == <<102, 116, 121, 112, 105, 115, 111, 109>>
SigMatroska == <<26, 69, 223, 163>>
SigMp3Frames == {<<255, 251>>, <<255, 243>>, <<255, 242>>}
SigMp3Tag == <<73, 68, 67>>
SigMoov == <<109, 111, 111, 118>>

\* a variant that looks for GIF and PNG before JPEG
guess_mimetype_gif_first(data) ==
    IF StartsWith(data, SigGif87a) \/ StartsWith(data, SigGif89a) THEN {"image/gif"}
    ELSE IF StartsWith(data, SigPng) THEN {"image/png"}
    ELSE IF Slice(data, 0, 3) = SigJpeg \/ Slice(data, 6, 10) \in {SigJfif, SigExif}
    THEN {"image/jpeg"}
    ELSE IF StartsWith(data, SigRiff) /\ Slice(data, 8, 12) = SigWebp THEN {"image/webp"}
    ELSE IF Slice(data, 3, 11) \in {SigFtypMsnv, SigFtypIsom} THEN {"video/mp4"}
    ELSE IF Slice(data, 0, 4) = SigMatroska THEN {"video/x-matroska"}
    ELSE IF Slice(data, 0, 2) \in SigMp3Frames \/ Slice(data, 0, 3) = SigMp3Tag
    THEN {"audio/mpeg"}
    ELSE IF Slice(data, 0, 4) = SigMoov THEN {"video/quicktime"}
    ELSE {}

\* guess_mimetype_by_magicnumber, lines 317-334.  The ftyp box is looked for
\* at offset 3 and the MP3 tag is the bytes 49 44 43, as the code has them.
guess_mimetype_by_magicnumber(data) ==
    IF Slice(data, 0, 3) = SigJpeg \/ Slice(data, 6, 10) \in {SigJfif, SigExif}
    THEN {"image/jpeg"}
    ELSE IF StartsWith(data, SigPng) THEN {"image/png"}
    ELSE IF StartsWith(data, SigRiff) /\ Slice(data, 8, 12) = SigWebp THEN {"image/webp"}
    ELSE IF StartsWith(data, SigGif87a) \/ StartsWith(data, SigGif89a) THEN {"image/gif"}
    ELSE IF Slice(data, 3, 11) \in {SigFtypMsnv, SigFtypIsom} THEN {"video/mp4"}
    ELSE IF Slice(data, 0, 4) = SigMatroska THEN {"video/x-matroska"}
    ELSE IF Slice(data, 0, 2) \in SigMp3Frames \/ Slice(data, 0, 3) = SigMp3Tag
    THEN {"audio/mpeg"}
    ELSE IF Slice(data, 0, 4) = SigMoov THEN {"video/quicktime"}
    ELSE {}

\* the length of the inputs that are padded
SniffLen == 16

\* data with the bytes of patch written over it from the offset on
Overlay(data, offset, patch) ==
    [i \in 1..Len(data) |->
        IF i > offset /\ i <= offset + Len(patch) THEN patch[i - offset] ELSE data[i]]

\* head followed by zero bytes up to SniffLen bytes
Padded(head) == [i \in 1..SniffLen |-> IF i <= Len(head) THEN head[i] ELSE 0]

MagicHeads ==
    {SigJpeg, SigPng, SigRiff, SigGif87a, SigGif89a, SigMatroska, SigMp3Tag, SigMoov,
     Slice(SigPng, 0, 4), <<255, 216>>, <<73, 68, 51>>, <<71, 73, 70, 56, 56, 97>>,
     <<0, 0, 0, 32>>, <<37, 80, 68, 70>>, <<>>} \cup SigMp3Frames

MagicPatches ==
    {[offset |-> 0, patch |-> <<>>],
     [offset |-> 6, patch |-> SigJfif], [offset |-> 6, patch |-> SigExif],
     [offset |-> 8, patch |-> SigWebp], [offset |-> 8, patch |-> <<1, 2, 3, 4, 5, 6, 7, 8>>],
     [offset |-> 3, patch |-> SigFtypMsnv], [offset |-> 3, patch |-> SigFtypIsom],
     [offset |-> 4, patch |-> SigFtypIsom], [offset |-> 4, patch |-> SigMoov]}

MagicInputs ==
    MagicHeads \cup {Overlay(Padded(h), p.offset, p.patch) : h \in MagicHeads, p \in MagicPatches}

InitMagic ==
    /\ ClientIdle
    /\ eval \in {Eval("guess_mimetype_by_magicnumber", data) : data \in MagicInputs}

GuessMimetypeByMagicnumber ==
    /\ eval.fn = "guess_mimetype_by_magicnumber"
    /\ ~eval.applied
    /\ eval' = [eval EXCEPT !.applied = TRUE, !.out = guess_mimetype_by_magicnumber(eval.arg)]
    /\ UNCHANGED dispatcher_vars
    /\ UNCHANGED <<invocation, cli, pager, scope, file>>

NextMagic == GuessMimetypeByMagicnumber

SpecMagic == InitMagic /\ [][NextMagic]_vars

\* the types in the order of the checks
SniffOrder ==
    <<"image/jpeg", "image/png", "image/webp", "image/gif", "video/mp4",
      "video/x-matroska", "audio/mpeg", "video/quicktime">>

\* the bytes d carry the signature of the type
Matches(type, d) ==
    CASE type = "image/jpeg" ->
            \/ (Len(d) >= 3 /\ <<d[1], d[2], d[3]>> = SigJpeg)
            \/ (Len(d) >= 10 /\ <<d[7], d[8], d[9], d[10]>> \in {SigJfif, SigExif})
      [] type = "image/png" -> Len(d) >= 8 /\ \A i \in 1..8 : d[i] = SigPng[i]
      [] type = "image/webp" ->
            /\ Len(d) >= 12
            /\ \A i \in 1..4 : d[i] = SigRiff[i] /\ d[8 + i] = SigWebp[i]
      [] type = "image/gif" ->
            Len(d) >= 6 /\ \E sig \in {SigGif87a, SigGif89a} : \A i \in 1..6 : d[i] = sig[i]
      [] type = "video/mp4" ->
            Len(d) >= 11 /\ \E sig \in {SigFtypMsnv, SigFtypIsom} : \A i \in 1..8 : d[3 + i] = sig[i]
      [] type = "video/x-matroska" -> Len(d) >= 4 /\ \A i \in 1..4 : d[i] = SigMatroska[i]
      [] type = "audio/mpeg" ->
            \/ (Len(d) >= 2 /\ <<d[1], d[2]>> \in SigMp3Frames)
            \/ (Len(d) >= 3 /\ <<d[1], d[2], d[3]>> = SigMp3Tag)
      [] type = "video/quicktime" -> Len(d) >= 4 /\ \A i \in 1..4 : d[i] = SigMoov[i]

\* C19: guess_mimetype_by_magicnumber returns the type of the first signature,
\* in the order JPEG, PNG, WEBP, GIF, MP4, Matroska, MP3, QuickTime, that the
\* input matches: image/png for input starting with the 8-byte PNG signature
\* whatever follows, image/jpeg for input starting with FF D8 FF, and no type
\* for input that matches no signature.
C19_FirstMatchingSignature ==
    (eval.fn = "guess_mimetype_by_magicnumber" /\ eval.applied) =>
        LET d == eval.arg
            matching == {i \in 1..Len(SniffOrder) : Matches(SniffOrder[i], d)}
        IN  /\ matching = {} => eval.out = {}
            /\ \A i \in matching :
                    (\A j \in matching : i <= j) => eval.out = {SniffOrder[i]}
            /\ (Len(d) >= 8 /\ SubSeq(d, 1, 8) = <<137, 80, 78, 71, 13, 10, 26, 10>>)
                    => eval.out = {"image/png"}
            /\ (Len(d) >= 3 /\ SubSeq(d, 1, 3) = <<255, 216, 255>>) => eval.out = {"image/jpeg"}

\* an input that carries the GIF signature and, further on, JFIF: the
\* earlier check wins
C19_Witness ==
    /\ eval.fn = "guess_mimetype_by_magicnumber" /\ eval.applied
    /\ Matches("image/gif", eval.arg) /\ Matches("image/jpeg", eval.arg)
    /\ eval.out = {"image/jpeg"}

---------------------------------------------------------------------------
(* Avatars: build_avatar_payload and Avatar.from_coded_string.  A string is
   the sequence of its characters. *)

Base64Alphabet ==
    <<
      "A", "B", "C", "D", "E", "F", "G", "H", "I", "J", "K", "L", "M", "N", "O", "P",
      "Q", "R", "S", "T", "U", "V", "W", "X", "Y", "Z", "a", "b", "c", "d", "e", "f",
      "g", "h", "i", "j", "k", "l", "m", "n", "o", "p", "q", "r", "s", "t", "u", "v",
      "w", "x", "y", "z", "0", "1", "2", "3", "4", "5", "6", "7", "8", "9", "+", "/" >>

\* the characters that encode a group of one, two or three bytes
EncodeGroup(g) ==
    LET n == Len(g)
        b1 == g[1]
        b2 == IF n >= 2 THEN g[2] ELSE 0
        b3 == IF n >= 3 THEN g[3] ELSE 0
    IN  <<Base64Alphabet[(b1 \div 4) + 1],
          Base64Alphabet[((b1 % 4) * 16 + b2 \div 16) + 1],
          IF n >= 2 THEN Base64Alphabet[((b2 % 16) * 4 + b3 \div 64) + 1] ELSE "=",
          IF n >= 3 THEN Base64Alphabet[(b3 % 64) + 1] ELSE "=">>

\* base64.b64encode(data).decode("ascii")
RECURSIVE b64encode(_)
b64encode(data) ==
    IF data = <<>> THEN <<>>
    ELSE IF Len(data) <= 3 THEN EncodeGroup(data)
    ELSE EncodeGroup(SubSeq(data, 1, 3)) \o b64encode(SubSeq(data, 4, Len(data)))

\* the six bits a character of the alphabet stands for
Sextet(c) == (CHOOSE i \in 1..64 : Base64Alphabet[i] = c) - 1

\* the bytes that a group of four characters encodes
DecodeGroup(g) ==
    LET pad == IF g[3] = "=" THEN 2 ELSE IF g[4] = "=" THEN 1 ELSE 0
        s1 == Sextet(g[1])
        s2 == Sextet(g[2])
        s3 == IF pad = 2 THEN 0 ELSE Sextet(g[3])
        s4 == IF pad >= 1 THEN 0 ELSE Sextet(g[4])
        bytes == <<s1 * 4 + s2 \div 16, (s2 % 16) * 16 + s3 \div 4, (s3 % 4) * 64 + s4>>
    IN  SubSeq(bytes, 1, 3 - pad)

RECURSIVE DecodeGroups(_)
DecodeGroups(chars) ==
    IF chars = <<>> THEN <<>>
    ELSE DecodeGroup(SubSeq(chars, 1, 4)) \o DecodeGroups(SubSeq(chars, 5, Len(chars)))

\* the characters of s that are in the set
RECURSIVE Only(_, _)
Only(s, set) ==
    IF s = <<>> THEN <<>>
    ELSE (IF Head(s) \in set THEN <<Head(s)>> ELSE <<>>) \o Only(Tail(s), set)

Decoded(bytes) == [ok |-> TRUE, bytes |-> bytes]
DecodeError == [ok |-> FALSE, bytes |-> <<>>]

\* base64.b64decode(s): characters outside the alphabet are dropped, and
\* what is left must be whole groups, padded at the end only
b64decode(s) ==
    LET kept == Only(s, {Base64Alphabet[i] : i \in 1..64} \cup {"="})
        n == Len(kept)
        data_len == IF n >= 2 /\ kept[n - 1] = "=" THEN n - 2
                    ELSE IF n >= 1 /\ kept[n] = "=" THEN n - 1 ELSE n
    IN  IF n % 4 # 0 \/ \E i \in 1..data_len : kept[i] = "="
        THEN DecodeError
        ELSE Decoded(DecodeGroups(kept))

\* build_avatar_payload: f"data:{mime};base64,{avatar_bytes_encoded}"
build_avatar_payload(mime, data) ==
    <<"d", "a", "t", "a", ":">> \o mime \o <<";", "b", "a", "s", "e", "6", "4", ",">> \o b64encode(data)

\* s.split(sep)
RECURSIVE Split(_, _)
Split(s, sep) ==
    LET at == {i \in 1..Len(s) : s[i] = sep}
    IN  IF at = {} THEN <<s>>
        ELSE LET i == CHOOSE x \in at : \A y \in at : x <= y
             IN  <<SubSeq(s, 1, i - 1)>> \o Split(SubSeq(s, i + 1, Len(s)), sep)

NoAvatar == [ok |-> FALSE, mime |-> {}, data |-> <<>>, error |-> ""]
AvatarOf(mime, data) == [ok |-> TRUE, mime |-> mime, data |-> data, error |-> ""]
AvatarError(cls) == [NoAvatar EXCEPT !.error = cls]

\* Avatar.__init__: mime or guess_mimetype_by_magicnumber(data[:16])
AvatarInit(data, mime) ==
    LET given == IF mime # {} /\ mime # {<<>>} THEN mime
                 ELSE guess_mimetype_by_magicnumber(Slice(data, 0, SniffLen))
    IN  IF given = {} THEN AvatarError("ZiplineError") ELSE AvatarOf(given, data)

\* Avatar.from_coded_string
from_coded_string(coded_str) ==
    LET parts == Split(coded_str, ";")
    IN  IF Len(parts) # 2 THEN AvatarError("ValueError")
        ELSE LET mime_part == Slice(parts[1], 5, Len(parts[1]))
                 data == b64decode(Slice(parts[2], 7, Len(parts[2])))
             IN  IF ~data.ok THEN AvatarError("binascii.Error")
                 ELSE AvatarInit(data.bytes, {mime_part})

AvatarMimes ==
    {<<"i", "m", "a", "g", "e", "/", "p", "n", "g">>,
     <<"i", "m", "a", "g", "e", "/", "j", "p", "e", "g">>,
     <<"i", "m", "a", "g", "e", "/", "s", "v", "g", "+", "x", "m", "l">>,
     <<"a", "/", "b">>,
     <<"t", "e", "x", "t", "/", "p", "l", "a", "i", "n", ";", "c", "h", "a", "r", "s", "e", "t", "=", "u", "t", "f", "-", "8">>,
     <<"i", "m", "a", "g", "e", "/", "p", "n", "g", ";", "v", "=", "1", ";", "q", "=", "2">>,
     <<>>}

AvatarData ==
    {<<>>,
     <<0>>,
     <<255>>,
     <<0, 0>>,
     <<255, 255>>,
     <<1, 2, 3>>,
     <<77, 97, 110>>,
     <<251, 255, 191>>,
     <<59>>,
     <<97, 59, 98, 44>>,
     <<137, 80, 78, 71, 13, 10, 26, 10>>,
     <<255, 216, 255, 224, 0>>,
     <<71, 73, 70, 56, 57, 97, 1>>,
     <<16, 32, 48, 64, 80, 96, 112>>}

InitAvatar ==
    /\ ClientIdle
    /\ eval \in {Eval("from_coded_string", [mime |-> m, data |-> d]) :
                    m \in AvatarMimes, d \in AvatarData}

\* Avatar.from_coded_string(build_avatar_payload(mime, data))
AvatarRoundTrip ==
    /\ eval.fn = "from_coded_string"
    /\ ~eval.applied
    /\ LET coded == build_avatar_payload(eval.arg.mime, eval.arg.data)
       IN  eval' = [eval EXCEPT !.applied = TRUE,
                        !.out = [coded |-> coded, avatar |-> from_coded_string(coded)]]
    /\ UNCHANGED dispatcher_vars
    /\ UNCHANGED <<invocation, cli, pager, scope, file>>

NextAvatar == AvatarRoundTrip

SpecAvatar == InitAvatar /\ [][NextAvatar]_vars

\* a media type: a type, "/", a subtype and then any parameters, each after ";"
ValidMime(m) ==
    LET first == Split(m, ";")[1]
        slashes == {i \in 1..Len(first) : first[i] = "/"}
    IN  /\ Cardinality(slashes) = 1
        /\ \A i \in slashes : 1 < i /\ i < Len(first)

\* C17: for every byte string data and every valid MIME string mime, the
\* encoded form is data:<mime>;base64,<base64 of data>, and decoding it with
\* Avatar.from_coded_string gives an avatar with that mime and that data.
C17_AvatarRoundTrip ==
    (eval.fn = "from_coded_string" /\ eval.applied /\ ValidMime(eval.arg.mime)) =>
        /\ eval.out.coded = <<"d", "a", "t", "a", ":">> \o eval.arg.mime
                                \o <<";", "b", "a", "s", "e", "6", "4", ",">> \o b64encode(eval.arg.data)
        /\ eval.out.avatar.ok
        /\ eval.out.avatar.mime = {eval.arg.mime}
        /\ eval.out.avatar.data = eval.arg.data

---------------------------------------------------------------------------
(* Colors: Color.from_str and Color.to_hex, for strings made of "#", "<" and
   hexadecimal digits.  The RGB and HSV alternatives of COLOR_REGEX need a
   comma or white space between numbers, so they match none of these. *)

HexLower == <<"0", "1", "2", "3", "4", "5", "6", "7", "8", "9", "a", "b", "c", "d", "e", "f">>
HexUpper == <<"0", "1", "2", "3", "4", "5", "6", "7", "8", "9", "A", "B", "C", "D", "E", "F">>

IsHexDigit(c) == \E i \in 1..16 : c \in {HexLower[i], HexUpper[i]}

\* int(c, 16)
HexVal(c) == (CHOOSE i \in 1..16 : c \in {HexLower[i], HexUpper[i]}) - 1

\* int(digits, 16)
RECURSIVE HexNum(_)
HexNum(digits) ==
    IF digits = <<>> THEN 0
    ELSE 16 * HexNum(SubSeq(digits, 1, Len(digits) - 1)) + HexVal(digits[Len(digits)])

\* n in lower-case hexadecimal, without padding
RECURSIVE HexUnpadded(_)
HexUnpadded(n) ==
    IF n < 16 THEN <<HexLower[n + 1]>> ELSE Append(HexUnpadded(n \div 16), HexLower[(n % 16) + 1])

\* to_hex: f"#{self.value:0>6x}"
to_hex(value) ==
    LET digits == HexUnpadded(value)
    IN  <<"#">> \o [i \in 1..(IF Len(digits) < 6 THEN 6 - Len(digits) ELSE 0) |-> "0"] \o digits

\* the Hex alternative of COLOR_REGEX at position i:
\* (?<!\<)\#(?:[a-f0-9]{6}|[a-f0-9]{3}\b), case ignored; the length of the
\* match, 0 when there is none
HexMatchAt(s, i) ==
    IF s[i] # "#" \/ (i > 1 /\ s[i - 1] = "<") THEN 0
    ELSE IF i + 6 <= Len(s) /\ \A j \in 1..6 : IsHexDigit(s[i + j]) THEN 7
    ELSE IF /\ i + 3 <= Len(s)
            /\ \A j \in 1..3 : IsHexDigit(s[i + j])
            /\ (i + 3 = Len(s) \/ ~IsHexDigit(s[i + 4]))
    THEN 4
    ELSE 0

ColorOf(value) == [ok |-> TRUE, value |-> value, error |-> ""]
ColorError(cls) == [ok |-> FALSE, value |-> 0, error |-> cls]

\* character * 2 for each character of the group
RECURSIVE Doubled(_)
Doubled(digits) ==
    IF digits = <<>> THEN <<>> ELSE <<Head(digits), Head(digits)>> \o Doubled(Tail(digits))

\* a variant that reads a three-digit group as it stands
from_str_undoubled(value) ==
    LET at == {i \in 1..Len(value) : HexMatchAt(value, i) > 0}
    IN  IF at = {} THEN ColorError("ValueError")
        ELSE LET i == CHOOSE x \in at : \A y \in at : x <= y
                 group == SubSeq(value, i, i + HexMatchAt(value, i) - 1)
             IN  ColorOf(HexNum(Tail(group)))

\* Color.from_str, lines 141-157: COLOR_REGEX.search, then the Hex branch
from_str(value) ==
    LET at == {i \in 1..Len(value) : HexMatchAt(value, i) > 0}
    IN  IF at = {} THEN ColorError("ValueError")
        ELSE LET i == CHOOSE x \in at : \A y \in at : x <= y
                 group == SubSeq(value, i, i + HexMatchAt(value, i) - 1)
                 digits == IF Len(group) = 4 THEN Doubled(Tail(group)) ELSE Tail(group)
             IN  ColorOf(HexNum(digits))

\* 2^24 - 1, the largest 24-bit value
MaxColor == 16777215

\* the digits of n in the given alphabet, padded to the width
HexDigits(n, width, alphabet) ==
    [i \in 1..width |-> alphabet[((n \div Pow(16, width - i)) % 16) + 1]]

ColorValues ==
    {0, 1, 15, 16, 255, 256, 4095, 4096, 65280, 65535, 65536, 1048575, 1048576,
     1193046, 11259375, 16711680, 16711935, 16776960, 16777214, MaxColor}

\* the 12-bit values of three-digit strings
ShortValues == {0, 1, 18, 291, 2748, 3840, 4095}

\* the value that a three-digit string stands for: each digit twice
Expanded(short) ==
    LET r == short \div 256
        g == (short \div 16) % 16
        b == short % 16
    IN  (r * 17) * 65536 + (g * 17) * 256 + b * 17

ColorStrings ==
    {[v |-> v, form |-> "#rrggbb", text |-> <<"#">> \o HexDigits(v, 6, HexLower)] : v \in ColorValues}
    \cup {[v |-> v, form |-> "rrggbb", text |-> HexDigits(v, 6, HexLower)] : v \in ColorValues}
    \cup {[v |-> v, form |-> "#RRGGBB", text |-> <<"#">> \o HexDigits(v, 6, HexUpper)] : v \in ColorValues}
    \cup {[v |-> Expanded(n), form |-> "#rgb", text |-> <<"#">> \o HexDigits(n, 3, HexLower)] :
            n \in ShortValues}
    \cup {[v |-> Expanded(n), form |-> "rgb", text |-> HexDigits(n, 3, HexLower)] : n \in ShortValues}
    \cup {[v |-> n, form |-> "other", text |-> <<"#">> \o HexDigits(n, 4, HexLower)] : n \in ShortValues}
    \cup {[v |-> n, form |-> "other", text |-> <<"<", "#">> \o HexDigits(n, 3, HexLower)] :
            n \in ShortValues}

InitColor ==
    /\ ClientIdle
    /\ eval \in {Eval("from_str", c) : c \in ColorStrings}

\* Color.from_str(text), and to_hex of the color
ColorFromStr ==
    /\ eval.fn = "from_str"
    /\ ~eval.applied
    /\ LET color == from_str(eval.arg.text)
       IN  eval' = [eval EXCEPT !.applied = TRUE,
                        !.out = [color |-> color,
                                 hex |-> IF color.ok THEN to_hex(color.value) ELSE <<>>]]
    /\ UNCHANGED dispatcher_vars
    /\ UNCHANGED <<invocation, cli, pager, scope, file>>

NextColor == ColorFromStr

SpecColor == InitColor /\ [][NextColor]_vars

\* the color parsed has the value v and the canonical hex string of v
ParsedAs(out, v) ==
    /\ out.color.ok
    /\ out.color.value = v
    /\ out.hex = <<"#">> \o HexDigits(v, 6, HexLower)

\* C18 as stated: for every 24-bit value v, from_str of the six-digit hex
\* string of v, with or without a leading "#", gives a color of value v whose
\* to_hex is the canonical #rrggbb string, and a three-digit string expands
\* each digit twice.
C18_HexWithOrWithoutHash ==
    (eval.fn = "from_str" /\ eval.applied
            /\ eval.arg.form \in {"#rrggbb", "rrggbb", "#rgb", "rgb"}) =>
        ParsedAs(eval.out, eval.arg.v)

\* C18, amended: for every 24-bit value v, from_str of "#" followed by the six
\* hex digits of v, in either case, gives a color of value v whose to_hex is
\* the canonical #rrggbb string; "#" followed by three hex digits expands each
\* digit twice, so "#fff" gives 16777215 and #ffffff; and a hex string without
\* the leading "#" is rejected with ValueError.
C18_HexWithHash ==
    (eval.fn = "from_str" /\ eval.applied) =>
        /\ eval.arg.form \in {"#rrggbb", "#RRGGBB", "#rgb"} => ParsedAs(eval.out, eval.arg.v)
        /\ eval.arg.form \in {"rrggbb", "rgb"} =>
                ~eval.out.color.ok /\ eval.out.color.error = "ValueError"
        /\ eval.arg.text = <<"#", "f", "f", "f">> =>
                eval.out.color.value = 16777215 /\ eval.out.hex = <<"#", "f", "f", "f", "f", "f", "f">>

\* "#fff" has been parsed
C18_Witness ==
    /\ eval.fn = "from_str" /\ eval.applied
    /\ eval.arg.text = <<"#", "f", "f", "f">>
    /\ eval.out.color.ok

---------------------------------------------------------------------------
(* Upload payloads: FileData.__init__.  A file name is the sequence of its
   stem and its extensions; a file is its content. *)

\* mimetypes.guess_type(filename)[0], for the extensions used here
ExtensionTypes ==
    [ext \in {".png", ".jpg", ".mp4", ".txt", ".bin"} |->
        CASE ext = ".png" -> "image/png"
          [] ext = ".jpg" -> "image/jpeg"
          [] ext = ".mp4" -> "video/mp4"
          [] ext = ".txt" -> "text/plain"
          [] ext = ".bin" -> "application/octet-stream"]

guess_type(filename) ==
    IF Len(filename) >= 2 /\ filename[Len(filename)] \in DOMAIN ExtensionTypes
    THEN {ExtensionTypes[filename[Len(filename)]]}
    ELSE {}

\* FileData.__init__, lines 1727-1748
FileDataInit(data, filename, mimetype) ==
    LET guessed_mime == IF mimetype # {} THEN mimetype
                        ELSE IF filename # {} THEN guess_type(CHOOSE f \in filename : TRUE)
                        ELSE guess_mimetype_by_magicnumber(Slice(data, 0, SniffLen))
    IN  [mimetype |-> IF guessed_mime \notin {{}, {""}} THEN guessed_mime
                      ELSE {"application/octet-stream"},
         filename |-> IF filename # {} THEN filename ELSE {<<"untitled">>},
         data |-> data]

FileNames ==
    {{}, {<<"photo", ".png">>}, {<<"clip", ".mp4">>}, {<<"notes", ".txt">>}, {<<"upload">>},
     {<<"data", ".zzz">>}, {<<"blob", ".bin">>}, {<<"archive", ".tar", ".zzz">>}}

GivenMimetypes == {{}, {"image/webp"}, {"text/html"}}

FileContents ==
    {<<>>, <<0, 0, 0, 32>>, <<37, 80, 68, 70, 45, 49, 46, 55>>,
     Padded(SigPng), Padded(SigJpeg), Padded(SigGif89a), Padded(SigMatroska),
     Overlay(Padded(SigRiff), 8, SigWebp), Overlay(Padded(<<>>), 3, SigFtypIsom),
     Padded(SigPng) \o <<255, 216, 255>>}

InitFileData ==
    /\ ClientIdle
    /\ eval \in {Eval("FileData", [data |-> d, filename |-> f, mimetype |-> m]) :
                    d \in FileContents, f \in FileNames, m \in GivenMimetypes}

FileDataNew ==
    /\ eval.fn = "FileData"
    /\ ~eval.applied
    /\ eval' = [eval EXCEPT !.applied = TRUE,
                    !.out = FileDataInit(eval.arg.data, eval.arg.filename, eval.arg.mimetype)]
    /\ UNCHANGED dispatcher_vars
    /\ UNCHANGED <<invocation, cli, pager, scope, file>>

NextFileData == FileDataNew

SpecFileData == InitFileData /\ [][NextFileData]_vars

\* the types that the four steps give, in their order; the last always gives one
StepsOf(arg) ==
    <<arg.mimetype,
      IF arg.filename = {} THEN {} ELSE guess_type(CHOOSE f \in arg.filename : TRUE),
      guess_mimetype_by_magicnumber(SubSeq(arg.data, 1, IF Len(arg.data) < 16 THEN Len(arg.data) ELSE 16)),
      {"application/octet-stream"}>>

\* C14: the content type of a FileData is the type given by the first of these
\* steps that gives one: the explicit mimetype, the guess from the file name,
\* the magic number in the first 16 bytes, and application/octet-stream.
C14_FirstStepThatGivesAType ==
    (eval.fn = "FileData" /\ eval.applied) =>
        LET steps == StepsOf(eval.arg)
            first == CHOOSE i \in 1..4 : steps[i] # {} /\ \A j \in 1..(i - 1) : steps[j] = {}
        IN  eval.out.mimetype = steps[first]

---------------------------------------------------------------------------
(* Client methods that send their options as headers: upload_file and
   shorten_url.  An option is a set with at most one member, None being the
   empty set. *)

The(option) == CHOOSE v \in option : TRUE

\* the truth value Python gives an Optional[str], Optional[int], Optional[bool]
TruthyStr(option) == option # {} /\ option # {""}
TruthyInt(option) == option # {} /\ option # {0}
TruthyBool(option) == option = {TRUE}

\* a datetime is true, a timedelta is true unless it is zero
TruthyExpiry(option) == option # {} /\ (The(option).delta => The(option).seconds # 0)

\* a Folder is true, a folder id is true unless it is empty
TruthyFolder(option) == option # {} /\ (The(option).obj \/ The(option).id # "")

\* a list is true unless it is empty, a str is true unless it is empty
TruthyDomain(option) ==
    /\ option # {}
    /\ IF The(option).list THEN The(option).items # <<>> ELSE The(option).items # <<"">>

\* sep.join(items)
RECURSIVE JoinWith(_, _)
JoinWith(sep, items) ==
    IF items = <<>> THEN ""
    ELSE IF Len(items) = 1 THEN items[1]
    ELSE items[1] \o sep \o JoinWith(sep, Tail(items))

\* ",".join(override_domain) if isinstance(override_domain, list) else override_domain
DomainValue(domain) == IF domain.list THEN JoinWith(",", domain.items) ELSE domain.items[1]

Timedelta(seconds) == [delta |-> TRUE, seconds |-> seconds, dt |-> NoDatetime]
Datetime(dt) == [delta |-> FALSE, seconds |-> 0, dt |-> dt]

\* the day after
NextDay(dt) ==
    IF dt.day < DaysInMonth(dt.year, dt.month) THEN [dt EXCEPT !.day = @ + 1]
    ELSE IF dt.month < 12 THEN [dt EXCEPT !.day = 1, !.month = @ + 1]
    ELSE [dt EXCEPT !.day = 1, !.month = 1, !.year = @ + 1]

RECURSIVE AddDays(_, _)
AddDays(dt, days) == IF days = 0 THEN dt ELSE AddDays(NextDay(dt), days - 1)

\* dt + timedelta(seconds=seconds)
AddSeconds(dt, seconds) ==
    LET total == dt.hour * 3600 + dt.minute * 60 + dt.second + seconds
        rest == total % 86400
    IN  [AddDays(dt, total \div 86400) EXCEPT
            !.hour = rest \div 3600, !.minute = (rest % 3600) \div 60, !.second = rest % 60]

\* dt_from_delta_or_dt, with the value of utcnow()
dt_from_delta_or_dt(input, now) ==
    IF input.delta THEN AddSeconds(now, input.seconds) ELSE input.dt

RECURSIVE DigitsText(_)
DigitsText(digits) ==
    IF digits = <<>> THEN "" ELSE ToString(Head(digits)) \o DigitsText(Tail(digits))

\* the text of a timestamp string
RECURSIVE IsoText(_)
IsoText(iso) ==
    IF iso = <<>> THEN ""
    ELSE (IF Len(iso) % 2 = 0 THEN DigitsText(Head(iso)) ELSE Head(iso)) \o IsoText(Tail(iso))

SetHeader(headers, key, value) == Update(headers, Headers1(key, value))

\* upload_file, lines 1118-1122
UploadInvalid(opts) ==
    \/ opts.compression_percent < 0 \/ opts.compression_percent > 100
    \/ (TruthyInt(opts.max_views) /\ The(opts.max_views) <= 0)

\* upload_file, lines 1124-1148
UploadHeaders(opts, now, pad_year) ==
    LET h0 == Headers1("X-Zipline-Image-Compression-Percent", ToString(opts.compression_percent))
        h1 == IF opts.format # {} THEN SetHeader(h0, "X-Zipline-Format", The(opts.format)) ELSE h0
        h2 == IF TruthyExpiry(opts.expiry)
              THEN SetHeader(h1, "X-Zipline-Deletes-At",
                        "date=" \o IsoText(to_iso_format(
                                        dt_from_delta_or_dt(The(opts.expiry), now), pad_year)))
              ELSE h1
        h3 == IF TruthyStr(opts.password)
              THEN SetHeader(h2, "X-Zipline-Password", The(opts.password)) ELSE h2
        h4 == IF TruthyInt(opts.max_views)
              THEN SetHeader(h3, "X-Zipline-Max-Views", ToString(The(opts.max_views))) ELSE h3
        h5 == IF TruthyStr(opts.override_name)
              THEN SetHeader(h4, "X-Zipline-Filename", The(opts.override_name)) ELSE h4
        h6 == IF TruthyBool(opts.original_name)
              THEN SetHeader(h5, "X-Zipline-Original-Name",
                        IF TruthyBool(opts.original_name) THEN "true" ELSE "false")
              ELSE h5
        h7 == IF TruthyStr(opts.override_extension)
              THEN SetHeader(h6, "X-Zipline-File-Extension", The(opts.override_extension)) ELSE h6
        h8 == IF TruthyFolder(opts.folder)
              THEN SetHeader(h7, "X-Zipline-Folder", The(opts.folder).id) ELSE h7
        h9 == IF TruthyDomain(opts.override_domain)
              THEN SetHeader(h8, "X-Zipline-Domain", DomainValue(The(opts.override_domain))) ELSE h8
    IN  IF opts.text_only THEN SetHeader(h9, "X-Zipline-No-Json", "true") ELSE h9

\* shorten_url, lines 597-598
ShortenInvalid(opts) == opts.max_views # {} /\ The(opts.max_views) < 0

\* shorten_url, lines 600-609
ShortenHeaders(opts) ==
    LET h1 == IF TruthyInt(opts.max_views)
              THEN SetHeader(NoHeaders, "X-Zipline-Max-Views", ToString(The(opts.max_views)))
              ELSE NoHeaders
        h2 == IF TruthyStr(opts.password)
              THEN SetHeader(h1, "X-Zipline-Password", The(opts.password)) ELSE h1
        h3 == IF TruthyDomain(opts.override_domain)
              THEN SetHeader(h2, "X-Zipline-Domain", DomainValue(The(opts.override_domain))) ELSE h2
    IN  IF opts.text_only THEN SetHeader(h3, "X-Zipline-No-Json", "true") ELSE h3

\* the timestamps that the bodies used here carry
TimestampTexts ==
    [text \in {"2024-01-01T00:00:00.000000Z"} |->
        IsoString(<<2, 0, 2, 4>>, <<0, 1>>, <<0, 1>>, <<0, 0>>, <<0, 0>>, <<0, 0>>,
                  <<0, 0, 0, 0, 0, 0>>)]

\* parse_iso_timestamp(data[key]) succeeds
TimestampAt(data, key) ==
    LET v == DictGet(data.items, key, PyNone)
    IN  /\ v.t = "str" /\ Len(v.s) = 1
        /\ v.s[1] \in DOMAIN TimestampTexts
        /\ parse_iso_timestamp(TimestampTexts[v.s[1]]).ok

MembersKeys(members) == {members[i].k : i \in 1..Len(members)}

\* data[key] for each of the keys in turn, parse_iso_timestamp where the key
\* holds a timestamp: the exception of the first that fails, "" when none does
RECURSIVE FirstFailure(_, _, _)
FirstFailure(data, keys, timestamps) ==
    IF keys = <<>> THEN ""
    ELSE IF Head(keys) \notin MembersKeys(data.items) THEN "KeyError"
    ELSE IF Head(keys) \in timestamps /\ ~TimestampAt(data, Head(keys)) THEN "ValueError"
    ELSE FirstFailure(data, Tail(keys), timestamps)

\* URL._from_data: subscripting what is not a dict raises TypeError, a key
\* that is missing KeyError, a timestamp that does not parse ValueError
URLFromData(data) ==
    LET failure == FirstFailure(data,
                        <<"id", "createdAt", "updatedAt", "code", "destination", "views",
                          "enabled", "userId">>,
                        {"createdAt", "updatedAt"})
    IN  IF data.t # "dict" THEN Raised(PlainException("TypeError", <<>>))
        ELSE IF failure # "" THEN Raised(PlainException(failure, <<>>))
        ELSE Returned([t |-> "URL", s |-> <<>>, items |-> data.items])

\* UploadResponse._from_data
UploadResponseFromData(data) ==
    IF data.t # "dict" THEN Raised(PlainException("TypeError", <<>>))
    ELSE IF "files" \notin MembersKeys(data.items)
    THEN Raised(PlainException("KeyError", <<>>))
    ELSE Returned([t |-> "UploadResponse", s |-> <<>>, items |-> data.items])

\* the last line of upload_file and of shorten_url: what the method makes of
\* the outcome of request
MethodOutcome(method, opts, outcome) ==
    IF outcome.kind # "return" \/ opts.text_only THEN outcome
    ELSE IF method = "upload_file" THEN UploadResponseFromData(outcome.value)
    ELSE URLFromData(outcome.value)

Invocation(method, opts) == [pc |-> "awaiting", method |-> method, opts |-> opts, outcome |-> Pending]

\* upload_file up to its await: the options are checked, the headers built and
\* the request handed to the dispatcher
UploadFileCall(c, opts, now, pad_year) ==
    IF UploadInvalid(opts)
    THEN /\ invocation' = [Invocation("upload_file", opts) EXCEPT
                                !.pc = "done",
                                !.outcome = Raised(PlainException("ValueError", <<>>))]
         /\ UNCHANGED <<session, calls>>
    ELSE /\ invocation' = Invocation("upload_file", opts)
         /\ SessionRequest(c, [route |-> Route("POST", "/api/upload"),
                               kwargs |-> Kwargs({"headers", "data"},
                                                 UploadHeaders(opts, now, pad_year))])

\* shorten_url up to its await
ShortenUrlCall(c, opts) ==
    IF ShortenInvalid(opts)
    THEN /\ invocation' = [Invocation("shorten_url", opts) EXCEPT
                                !.pc = "done",
                                !.outcome = Raised(PlainException("ValueError", <<>>))]
         /\ UNCHANGED <<session, calls>>
    ELSE /\ invocation' = Invocation("shorten_url", opts)
         /\ SessionRequest(c, [route |-> Route("POST", "/api/user/urls"),
                               kwargs |-> Kwargs({"headers", "json"}, ShortenHeaders(opts))])

\* the method from its await on: request completes and the method returns or raises
MethodResume(c) ==
    /\ Completion(c)
    /\ invocation' = [invocation EXCEPT
            !.pc = "done",
            !.outcome = MethodOutcome(invocation.method, invocation.opts, calls'[c].outcome)]

\* the values of utcnow()
Nows ==
    {[year |-> 2024, month |-> 6, day |-> 1, hour |-> 12, minute |-> 0, second |-> 0,
      microsecond |-> 0, tzinfo |-> "UTC"],
     [year |-> 2024, month |-> 12, day |-> 31, hour |-> 23, minute |-> 30, second |-> 0,
      microsecond |-> 250000, tzinfo |-> "UTC"]}

UploadFile(c, options) ==
    /\ invocation.pc = "none"
    /\ calls[c].pc = "idle"
    /\ \E opts \in options, now \in Nows, pad_year \in BOOLEAN : UploadFileCall(c, opts, now, pad_year)
    /\ UNCHANGED <<server_url, base_url, token, user_agent>>
    /\ UNCHANGED <<cli, pager, scope, file, eval>>

ShortenUrl(c, options) ==
    /\ invocation.pc = "none"
    /\ calls[c].pc = "idle"
    /\ \E opts \in options : ShortenUrlCall(c, opts)
    /\ UNCHANGED <<server_url, base_url, token, user_agent>>
    /\ UNCHANGED <<cli, pager, scope, file, eval>>

MethodReturn(c) ==
    /\ invocation.pc = "awaiting"
    /\ calls[c].pc = "responded"
    /\ MethodResume(c)
    /\ UNCHANGED <<server_url, base_url, token, user_agent, session>>
    /\ UNCHANGED <<cli, pager, scope, file, eval>>

Domains ==
    {{}, {[list |-> FALSE, items |-> <<"a.example">>]},
     {[list |-> TRUE, items |-> <<"a.example", "b.example">>]},
     {[list |-> TRUE, items |-> <<>>]}}

UploadOptions ==
    [format : {{}, {"uuid"}},
     compression_percent : {0, 50, 101},
     expiry : {{}, {Timedelta(3600)}, {Timedelta(0)},
               {Datetime([year |-> 2030, month |-> 2, day |-> 28, hour |-> 8, minute |-> 5,
                          second |-> 9, microsecond |-> 0, tzinfo |-> "UTC"])}},
     password : {{}, {"hunter2"}},
     max_views : {{}, {5}, {-1}},
     override_name : {{}, {"a.png"}},
     original_name : {{}, {TRUE}, {FALSE}},
     override_extension : {{}, {"png"}},
     folder : {{}, {[obj |-> FALSE, id |-> "f1"]}, {[obj |-> TRUE, id |-> "f2"]}},
     override_domain : Domains,
     text_only : BOOLEAN]

ShortenOptions ==
    [original_url : {"https://example.org/a"},
     vanity : {{}, {"short"}},
     max_views : {{}, {0}, {5}, {-1}},
     password : {{}, {"hunter2"}},
     enabled : BOOLEAN,
     override_domain : Domains,
     text_only : BOOLEAN]

MethodResponses ==
    {[status |-> 200, headers |-> Headers1("Content-Type", "text/plain"),
      body |-> <<"https://zipline.example/u/abc">>],
     [status |-> 200, headers |-> Headers1("Content-Type", "application/json"),
      body |-> <<"{", Q, "id", Q, ":", " ", "42", "}">>],
     [status |-> 403, headers |-> Headers1("Content-Type", "application/json"),
      body |-> <<"{", Q, "error", Q, ":", Q, "quota", Q, "}">>]}

InitHeaders ==
    /\ \E server \in ServerURLs : HTTPClientInit(server, Token)
    /\ calls = [c \in Calls |-> IdleCall]
    /\ ClientUnused

NextHeaders ==
    \/ \E c \in Calls : UploadFile(c, UploadOptions)
    \/ \E c \in Calls : ShortenUrl(c, ShortenOptions)
    \/ \E c \in Calls : Respond(c, MethodResponses)
    \/ \E c \in Calls : MethodReturn(c)

SpecHeaders == InitHeaders /\ [][NextHeaders]_vars

\* the optional headers of a method, each with the option it carries
OptionalHeaders(method) ==
    IF method = "upload_file"
    THEN {<<"X-Zipline-Format", "format">>, <<"X-Zipline-Deletes-At", "expiry">>,
          <<"X-Zipline-Password", "password">>, <<"X-Zipline-Max-Views", "max_views">>,
          <<"X-Zipline-Filename", "override_name">>,
          <<"X-Zipline-Original-Name", "original_name">>,
          <<"X-Zipline-File-Extension", "override_extension">>,
          <<"X-Zipline-Folder", "folder">>, <<"X-Zipline-Domain", "override_domain">>,
          <<"X-Zipline-No-Json", "text_only">>}
    ELSE {<<"X-Zipline-Max-Views", "max_views">>, <<"X-Zipline-Password", "password">>,
          <<"X-Zipline-Domain", "override_domain">>, <<"X-Zipline-No-Json", "text_only">>}

\* the caller set the option: text_only is True, a list of domains is given
\* and has members, any other option is not None
IsSet(opts, name) ==
    CASE name = "text_only" -> opts.text_only
      [] name = "override_domain" ->
            opts.override_domain # {} /\ The(opts.override_domain).items # <<>>
      [] OTHER -> opts[name] # {}

\* C13: in the request of upload_file and of shorten_url each optional
\* X-Zipline-* header is present if and only if the caller set its option,
\* and no such header has the empty string as its value.
C13_HeaderIffOptionSet ==
    \A i \in 1..Len(session.log) :
        invocation.pc # "none" =>
            \A pair \in OptionalHeaders(invocation.method) :
                /\ (pair[1] \in DOMAIN session.log[i].headers) <=> IsSet(invocation.opts, pair[2])
                /\ pair[1] \in DOMAIN session.log[i].headers => session.log[i].headers[pair[1]] # ""

---------------------------------------------------------------------------
(* The command line (zipline/cli/commands): upload and shorten. *)

\* a command that ends: its exit code, whether a traceback is printed and
\* whether client.close() has run
Exit(code) == [exit_code |-> code, traceback |-> FALSE, closes |-> TRUE]
Uncaught == [exit_code |-> 1, traceback |-> TRUE, closes |-> FALSE]

\* the except clauses of upload and shorten, in their order; an exception that
\* none of them names leaves the command and the interpreter exits with 1
CliExit(outcome) ==
    IF outcome.kind = "return" THEN Exit(0)
    ELSE IF IsInstance(outcome.exc, "NonHttpUrlClientError") THEN Exit(1)
    ELSE IF IsInstance(outcome.exc, "NotAuthenticated") \/ IsInstance(outcome.exc, "Forbidden")
    THEN Exit(77)
    ELSE IF IsInstance(outcome.exc, "BadRequest") THEN Exit(1)
    ELSE Uncaught

Exited(cmd, exit) ==
    [pc |-> "exited", cmd |-> cmd, exit_code |-> exit.exit_code, traceback |-> exit.traceback]

\* upload, lines 147-195: upload_file takes its files as *payload, and the
\* command passes payload=file_data, so the call itself raises TypeError
CliUpload(options) ==
    /\ cli.pc = "none"
    /\ invocation.pc = "none"
    /\ \E opts \in options :
        /\ invocation' = [Invocation("upload_file", opts) EXCEPT
                                !.pc = "done",
                                !.outcome = Raised(PlainException("TypeError",
                                    <<FString("Client.upload_file() got an unexpected keyword argument 'payload'")>>))]
        /\ cli' = Exited("upload", CliExit(invocation'.outcome))
        /\ session' = [session EXCEPT !.closed = CliExit(invocation'.outcome).closes]
    /\ UNCHANGED <<server_url, base_url, token, user_agent, calls>>
    /\ UNCHANGED <<pager, scope, file, eval>>

\* shorten, lines 72-86: the client is made and shorten_url called
CliShorten(c, options) ==
    /\ cli.pc = "none"
    /\ invocation.pc = "none"
    /\ calls[c].pc = "idle"
    /\ \E opts \in options :
        /\ ShortenUrlCall(c, [opts EXCEPT !.override_domain = {}, !.text_only = FALSE])
        /\ cli' = IF invocation'.pc = "done"
                  THEN Exited("shorten", CliExit(invocation'.outcome))
                  ELSE [NoCli EXCEPT !.pc = "awaiting", !.cmd = "shorten"]
    /\ UNCHANGED <<server_url, base_url, token, user_agent>>
    /\ UNCHANGED <<pager, scope, file, eval>>

\* shorten, lines 80-104: shorten_url returns or raises and the command ends
CliShortenResume(c) ==
    /\ cli.pc = "awaiting"
    /\ calls[c].pc = "responded"
    /\ MethodResume(c)
    /\ cli' = Exited("shorten", CliExit(invocation'.outcome))
    /\ session' = [session EXCEPT !.closed = CliExit(invocation'.outcome).closes]
    /\ UNCHANGED <<server_url, base_url, token, user_agent>>
    /\ UNCHANGED <<pager, scope, file, eval>>

UrlBody ==
    <<
       "{", Q, "id", Q, ":", Q, "u1", Q, ",", Q, "createdAt", Q, ":", Q,
       "2024-01-01T00:00:00.000000Z", Q, ",", Q, "updatedAt", Q, ":", Q,
       "2024-01-01T00:00:00.000000Z", Q, ",", Q, "code", Q, ":", Q, "abc", Q, ",", Q,
       "destination", Q, ":", Q, "https://example.org/a", Q, ",", Q, "views", Q, ":",
       "0", ",", Q, "enabled", Q, ":", "true", ",", Q, "userId", Q, ":", Q, "1", Q,
       "}" >>

CliBodies ==
    {UrlBody,
     <<"{", Q, "error", Q, ":", Q, "not allowed", Q, "}">>,
     <<"{", Q, "id", Q, ":", Q, "u1", Q, "}">>}

CliStatuses == {200, 201, 400, 401, 403, 404, 413, 429, 500}

CliResponses ==
    [status : CliStatuses, headers : {Headers1("Content-Type", "application/json")},
     body : CliBodies]
    \cup [status : {200, 401}, headers : {Headers1("Content-Type", "text/plain")},
          body : {<<"Unauthorized">>}]

CliUploadOptions ==
    {o \in UploadOptions :
        /\ o.expiry = {} /\ o.folder = {} /\ o.override_domain = {} /\ o.override_extension = {}
        /\ o.override_name = {} /\ o.password = {} /\ o.text_only}

CliShortenOptions ==
    {o \in ShortenOptions : o.override_domain = {} /\ ~o.text_only}

InitCli ==
    /\ \E server \in ServerURLs : HTTPClientInit(server, Token)
    /\ calls = [c \in Calls |-> IdleCall]
    /\ ClientUnused

NextCli ==
    \/ CliUpload(CliUploadOptions)
    \/ \E c \in Calls : CliShorten(c, CliShortenOptions)
    \/ \E c \in Calls : Respond(c, CliResponses)
    \/ \E c \in Calls : CliShortenResume(c)

SpecCli == InitCli /\ [][NextCli]_vars

\* the request of the command was answered with the status
Answered(status) == \E c \in Calls : calls[c].pc = "done" /\ calls[c].resp.status = status

\* C12: upload and shorten exit with 0 when the request succeeds, with 77 when
\* it fails with an authentication failure (401 NotAuthenticated, 403
\* Forbidden) and with 1 on every other request failure.
C12_ExitCodes ==
    cli.pc = "exited" =>
        /\ ((\E st \in {200, 201} : Answered(st)) /\ invocation.outcome.kind = "return")
                => cli.exit_code = 0
        /\ (Answered(401) \/ Answered(403)) => cli.exit_code = 77
        /\ (\E st \in CliStatuses \ {200, 201, 401, 403} : Answered(st)) => cli.exit_code = 1

\* C29: by whatever path the upload or the shorten command ends, request
\* failures that no except clause names included, the transport session of
\* its client has been closed.
C29_SessionClosedOnEveryExit == cli.pc = "exited" => session.closed

---------------------------------------------------------------------------
(* Pagination: Client.iter_files over Client.get_files.  The server's answer
   to a request for a page is the files of the page and the page count it
   reports, or a failure; the files of a page are named by the page and their
   place in it. *)

\* the largest page count a response reports, and the most files in a page
MaxPages == 3
MaxFiles == 2

PageCounts == {{}} \cup {{n} : n \in 0..MaxPages}

FilesOfPage(page_num, count) == [i \in 1..count |-> <<page_num, i>>]

PageResponse(count, pages) == [failed |-> FALSE, count |-> count, pages |-> pages]
PageFailure == [failed |-> TRUE, count |-> 0, pages |-> {}]

FirstPageResponses == {PageResponse(n, p) : n \in 0..MaxFiles, p \in PageCounts} \cup {PageFailure}

\* later responses report fewer pages, more, or none
LaterPageResponses ==
    {PageResponse(n, p) : n \in 0..MaxFiles, p \in {{}, {1}, {MaxPages}}} \cup {PageFailure}

\* get_files, lines 783-799: the request for a page
GetFilesRequest(page_num) ==
    [call |-> 0, method |-> "GET", url |-> base_url \o "/api/user/files",
     headers |-> RequestHeaders(Kwargs({"params"}, NoHeaders)), passed |-> {"params"},
     params |-> [sortBy |-> "createdAt", order |-> "asc", page |-> ToString(page_num),
                 perpage |-> "100", filter |-> "all", searchField |-> "name"]]

\* a variant that takes the page count from the latest response
LastPageOfLatest(p) ==
    LET latest == p.reported[Len(p.reported)]
    IN  IF latest # {} /\ The(latest) > 1 THEN The(latest) ELSE 1

\* iter_files, lines 869-870: the last page to request, from res.pages of the
\* first response
LastPage(p) == IF TruthyInt(p.pages) /\ The(p.pages) > 1 THEN The(p.pages) ELSE 1

\* the generator runs on, from where p stands, to its next yield, its next
\* request or its end
Continue(p) ==
    IF p.current # <<>>
    THEN /\ pager' = [p EXCEPT !.pc = "yielded", !.yielded = Append(@, Head(p.current)),
                               !.current = Tail(@)]
         /\ UNCHANGED session
    ELSE IF p.page_num < LastPage(p)
    THEN /\ pager' = [p EXCEPT !.pc = "awaiting", !.page_num = @ + 1]
         /\ session' = [session EXCEPT !.log = Append(@, GetFilesRequest(p.page_num + 1))]
    ELSE /\ pager' = [p EXCEPT !.pc = "done"]
         /\ UNCHANGED session

\* iter_files, line 864: the first __anext__ requests page 1
IterFilesStart ==
    /\ pager.pc = "none"
    /\ pager' = [pager EXCEPT !.pc = "awaiting", !.page_num = 1]
    /\ session' = [session EXCEPT !.log = Append(@, GetFilesRequest(1))]
    /\ UNCHANGED <<server_url, base_url, token, user_agent, calls>>
    /\ UNCHANGED <<invocation, cli, scope, file, eval>>

\* the answer to the request arrives: get_files raises, or returns the page
\* and the generator runs on
PageArrives(first, later) ==
    /\ pager.pc = "awaiting"
    /\ \E r \in (IF pager.page_num = 1 THEN first ELSE later) :
        IF r.failed
        THEN /\ pager' = [pager EXCEPT !.pc = "raised"]
             /\ UNCHANGED session
        ELSE Continue([pager EXCEPT
                !.pages = IF pager.page_num = 1 THEN r.pages ELSE @,
                !.current = FilesOfPage(pager.page_num, r.count),
                !.received = Append(@, FilesOfPage(pager.page_num, r.count)),
                !.reported = Append(@, r.pages)])
    /\ UNCHANGED <<server_url, base_url, token, user_agent, calls>>
    /\ UNCHANGED <<invocation, cli, scope, file, eval>>

\* the consumer asks for the next file
Anext ==
    /\ pager.pc = "yielded"
    /\ Continue(pager)
    /\ UNCHANGED <<server_url, base_url, token, user_agent, calls>>
    /\ UNCHANGED <<invocation, cli, scope, file, eval>>

InitPager ==
    /\ \E server \in ServerURLs : HTTPClientInit(server, Token)
    /\ calls = [c \in Calls |-> IdleCall]
    /\ ClientUnused

NextPager ==
    \/ IterFilesStart
    \/ PageArrives(FirstPageResponses, LaterPageResponses)
    \/ Anext

SpecPager == InitPager /\ [][NextPager]_vars

RECURSIVE Concat(_)
Concat(seqs) == IF seqs = <<>> THEN <<>> ELSE Head(seqs) \o Concat(Tail(seqs))

\* the page count that the first response reported, 1 when it reported none
\* or at most 1
ReportedByFirst ==
    IF pager.reported # <<>> /\ pager.reported[1] \notin {{}, {0}, {1}}
    THEN The(pager.reported[1]) ELSE 1

\* C20: iter_files requests page 1 first and then the pages 2..N in
\* increasing order, each once, N being the page count that the first
\* response reported; it yields the files of the pages in page order; and it
\* makes exactly one request when the first response reported no page count or
\* one of at most 1.
C20_PagesInOrderOnce ==
    pager.pc # "none" =>
        /\ \A i \in 1..Len(session.log) : session.log[i].params.page = ToString(i)
        /\ Len(session.log) >= 1 /\ Len(session.log) <= ReportedByFirst
        /\ pager.pc = "done" => Len(session.log) = ReportedByFirst
        /\ pager.yielded = SubSeq(Concat(pager.received), 1, Len(pager.yielded))
        /\ pager.pc \in {"done", "awaiting"} => pager.yielded = Concat(pager.received)
        /\ \A i \in 1..Len(pager.received) :
                \A j \in 1..Len(pager.received[i]) : pager.received[i][j][1] = i

\* three pages were requested, as the first response said, although the
\* second response reported a single page
C20_Witness ==
    /\ pager.pc = "done"
    /\ Len(session.log) = 3
    /\ pager.reported[1] = {3} /\ pager.reported[2] = {1}
    /\ Len(pager.yielded) >= 3

---------------------------------------------------------------------------
(* The client as an async context manager: async with Client(...) as client.
   Requests are made by the body of the block. *)

\* a variant of __aexit__ that closes the session only when the block ended
\* without an exception
AexitOnSuccess(exc) ==
    /\ session' = [session EXCEPT !.closed = (exc = "") \/ @]
    /\ scope' = [pc |-> "left", exc |-> exc]

\* Client.__aexit__, lines 1168-1174: Client.close, HTTPClient.close; it
\* returns None, so an exception of the block goes on to the caller
Aexit(exc) ==
    /\ session' = [session EXCEPT !.closed = TRUE]
    /\ scope' = [pc |-> "left", exc |-> exc]

\* Client.__aenter__, lines 1165-1166
AsyncWithEnter ==
    /\ scope.pc = "none"
    /\ scope' = [scope EXCEPT !.pc = "inside"]
    /\ UNCHANGED dispatcher_vars
    /\ UNCHANGED <<invocation, cli, pager, file, eval>>

\* the body of the block makes a request
BlockRequest(c, inputs) ==
    /\ scope.pc = "inside"
    /\ RequestSend(c, inputs)

\* the body of the block runs to its end, no request being awaited
BlockReturns ==
    /\ scope.pc = "inside"
    /\ \A c \in Calls : calls[c].pc \in {"idle", "done"}
    /\ Aexit("")
    /\ UNCHANGED <<server_url, base_url, token, user_agent, calls>>
    /\ UNCHANGED <<invocation, cli, pager, file, eval>>

\* the exceptions of the body that no request raised
BlockExceptions == {"KeyError", "CancelledError"}

\* the body of the block raises: what a request raised, or an exception of
\* its own
BlockRaises(exceptions) ==
    /\ scope.pc = "inside"
    /\ \E exc \in exceptions \cup
                 {calls[c].outcome.exc.cls : c \in {d \in Calls : calls[d].outcome.kind = "raise"}} :
            Aexit(exc)
    /\ UNCHANGED <<server_url, base_url, token, user_agent, calls>>
    /\ UNCHANGED <<invocation, cli, pager, file, eval>>

InitScope ==
    /\ \E server \in ServerURLs : HTTPClientInit(server, Token)
    /\ calls = [c \in Calls |-> IdleCall]
    /\ ClientUnused

NextScope ==
    \/ AsyncWithEnter
    \/ \E c \in Calls : BlockRequest(c, CallArgs)
    \/ \E c \in Calls : Respond(c, FewResponses)
    \/ \E c \in Calls : RequestComplete(c)
    \/ BlockReturns
    \/ BlockRaises(BlockExceptions)

SpecScope == InitScope /\ [][NextScope]_vars

\* C21: once the async with block of a client is left, normally or by an
\* exception, the transport session is closed; while the block is running the
\* session is open.
C21_SessionClosedOnLeaving ==
    /\ scope.pc = "left" => session.closed
    /\ scope.pc = "inside" => ~session.closed

\* the block was left by an exception after it had made a request
C21_Witness ==
    /\ scope.pc = "left"
    /\ scope.exc # ""
    /\ Len(session.log) = 1
    /\ session.closed

---------------------------------------------------------------------------
(* Methods of the client and of the model objects that send their options in
   a query string or a JSON payload.  A payload is the sequence of the members
   of the dict, in the order of their insertion.  The value a method returns
   is built from the keys its _from_data requires; the members of nested
   objects are not looked at. *)

PyBool(b) == PyScalar("bool", IF b THEN "true" ELSE "false")

\* the method is at its await of HTTPClient.request, having passed the payload
Awaiting(method, opts, payload) ==
    [pc |-> "awaiting", method |-> method, opts |-> opts, outcome |-> Pending,
     payload |-> payload]

\* the method raised before any request
RaisedEarly(method, opts, cls) ==
    [pc |-> "done", method |-> method, opts |-> opts,
     outcome |-> Raised(PlainException(cls, <<>>)), payload |-> <<>>]

\* Client.get_files, lines 783-796, and User.get_files, lines 1025-1038: the
\* query parameters; first holds the members the dict starts with
GetFilesParams(first, opts) ==
    LET p1 == IF opts.page # 0 THEN DictSet(first, "page", PyStr(<<ToString(opts.page)>>))
              ELSE first
        p2 == IF opts.per_page # 0
              THEN DictSet(p1, "perpage", PyStr(<<ToString(opts.per_page)>>)) ELSE p1
        p3 == DictSet(p2, "filter", PyStr(<<"all">>))
        p4 == IF TruthyBool(opts.favorite)
              THEN DictSet(p3, "favorite",
                           PyStr(<<IF TruthyBool(opts.favorite) THEN "true" ELSE "false">>))
              ELSE p3
        p5 == DictSet(p4, "searchField", PyStr(<<"name">>))
    IN  IF TruthyStr(opts.search_query)
        THEN DictSet(p5, "searchQuery", PyStr(<<The(opts.search_query)>>)) ELSE p5

SortAndOrder ==
    <<[k |-> "sortBy", v |-> PyStr(<<"createdAt">>)], [k |-> "order", v |-> PyStr(<<"asc">>)]>>

\* the tags given to File.edit are true unless the sequence is empty
TruthyTags(option) == option # {} /\ option # {<<>>}

\* File.edit, lines 329-342: the JSON payload
FileEditPayload(opts) ==
    LET p1 == IF TruthyBool(opts.favorite)
              THEN DictSet(<<>>, "favorite", PyBool(The(opts.favorite))) ELSE <<>>
        p2 == IF TruthyTags(opts.tags)
              THEN DictSet(p1, "tags", PyList([i \in 1..Len(The(opts.tags)) |->
                                                    PyStr(<<The(opts.tags)[i]>>)]))
              ELSE p1
        p3 == IF TruthyInt(opts.max_views)
              THEN DictSet(p2, "maxViews", PyInt(The(opts.max_views))) ELSE p2
        p4 == IF TruthyStr(opts.original_name)
              THEN DictSet(p3, "originalName", PyStr(<<The(opts.original_name)>>)) ELSE p3
        p5 == IF TruthyStr(opts.password)
              THEN DictSet(p4, "password", PyStr(<<The(opts.password)>>)) ELSE p4
    IN  IF TruthyStr(opts.type) THEN DictSet(p5, "type", PyStr(<<The(opts.type)>>)) ELSE p5

\* URL.edit, lines 1547-1558: the JSON payload
URLEditPayload(opts) ==
    LET p1 == IF TruthyInt(opts.max_views)
              THEN DictSet(<<>>, "maxViews", PyInt(The(opts.max_views))) ELSE <<>>
        p2 == IF TruthyStr(opts.vanity)
              THEN DictSet(p1, "vanity", PyStr(<<The(opts.vanity)>>)) ELSE p1
        p3 == IF TruthyStr(opts.destination)
              THEN DictSet(p2, "destination", PyStr(<<The(opts.destination)>>)) ELSE p2
        p4 == IF TruthyBool(opts.enabled)
              THEN DictSet(p3, "enabled", PyBool(The(opts.enabled))) ELSE p3
    IN  IF TruthyStr(opts.password)
        THEN DictSet(p4, "password", PyStr(<<The(opts.password)>>)) ELSE p4

\* cls._from_data(data): subscripting what is not a dict raises TypeError, a
\* required key that is missing KeyError, a timestamp that does not parse
\* ValueError
FromData(cls, required, timestamps, data) ==
    LET failure == FirstFailure(data, required, timestamps)
    IN  IF data.t # "dict" THEN Raised(PlainException("TypeError", <<>>))
        ELSE IF failure # "" THEN Raised(PlainException(failure, <<>>))
        ELSE Returned([t |-> cls, s |-> <<>>, items |-> data.items])

\* File._from_data, lines 161-181
FileFromData(data) ==
    FromData("File",
             <<"id", "createdAt", "updatedAt", "favorite", "name", "size", "type", "views">>,
             {"createdAt", "updatedAt"}, data)

\* UserFilesResponse._from_data, lines 2328-2334
UserFilesResponseFromData(data) == FromData("UserFilesResponse", <<"page">>, {}, data)

\* User._from_data, lines 861-879
UserFromData(data) ==
    FromData("User",
             <<"id", "username", "createdAt", "updatedAt", "role", "sessions", "oauthProviders">>,
             {"createdAt", "updatedAt"}, data)

\* Invite._from_data, lines 1170-1182
InviteFromData(data) ==
    FromData("Invite",
             <<"id", "createdAt", "updatedAt", "code", "uses", "inviter", "inviterId">>,
             {"createdAt", "updatedAt"}, data)

\* the last line of the method: what it makes of the outcome of request
ModelOutcome(method, outcome) ==
    IF outcome.kind # "return" THEN outcome
    ELSE CASE method \in {"Client.get_files", "User.get_files"} ->
                    UserFilesResponseFromData(outcome.value)
           [] method \in {"File.edit", "File.add_tag", "File.remove_tag"} ->
                    FileFromData(outcome.value)
           [] method = "URL.edit" -> URLFromData(outcome.value)
           [] method = "UserQuota.resolve_user" -> UserFromData(outcome.value)
           [] method = "Client.create_invite" -> InviteFromData(outcome.value)
           [] OTHER -> outcome

\* the method up to its await: the request is handed to the dispatcher with
\* the payload under the keyword, if any
ModelCall(c, method, opts, route, keywords, payload) ==
    /\ invocation' = Awaiting(method, opts, payload)
    /\ SessionRequest(c, [route |-> route, kwargs |-> Kwargs(keywords, NoHeaders)])

\* the method from its await on
ModelResume(c) ==
    /\ Completion(c)
    /\ invocation' = [invocation EXCEPT
            !.pc = "done", !.outcome = ModelOutcome(invocation.method, calls'[c].outcome)]

\* Client.get_files
GetFiles(c, options) ==
    /\ invocation.pc = "none"
    /\ calls[c].pc = "idle"
    /\ \E opts \in options :
            ModelCall(c, "Client.get_files", opts, Route("GET", "/api/user/files"), {"params"},
                      GetFilesParams(SortAndOrder, opts))
    /\ UNCHANGED <<server_url, base_url, token, user_agent>>
    /\ UNCHANGED <<cli, pager, scope, file, eval>>

\* User.get_files, of the user with the id
UserGetFiles(c, options, ids) ==
    /\ invocation.pc = "none"
    /\ calls[c].pc = "idle"
    /\ \E opts \in options, id \in ids :
            ModelCall(c, "User.get_files", opts, Route("GET", "/api/user/files"), {"params"},
                      GetFilesParams(Append(SortAndOrder, [k |-> "id", v |-> PyStr(<<id>>)]),
                                     opts))
    /\ UNCHANGED <<server_url, base_url, token, user_agent>>
    /\ UNCHANGED <<cli, pager, scope, file, eval>>

\* File.edit, lines 329-346, up to its await
FileEditCall(c, method, opts) ==
    ModelCall(c, method, opts, Route("PATCH", "/api/user/files/" \o file.id), {"json"},
              FileEditPayload(opts))

\* File.edit
FileEdit(c, options) ==
    /\ invocation.pc = "none"
    /\ calls[c].pc = "idle"
    /\ \E opts \in options : FileEditCall(c, "File.edit", opts)
    /\ UNCHANGED <<server_url, base_url, token, user_agent>>
    /\ UNCHANGED <<cli, pager, scope, file, eval>>

\* URL.edit, of the URL with the id
URLEdit(c, options, ids) ==
    /\ invocation.pc = "none"
    /\ calls[c].pc = "idle"
    /\ \E opts \in options, id \in ids :
            ModelCall(c, "URL.edit", opts, Route("PATCH", "/api/user/urls/" \o id), {"json"},
                      URLEditPayload(opts))
    /\ UNCHANGED <<server_url, base_url, token, user_agent>>
    /\ UNCHANGED <<cli, pager, scope, file, eval>>

\* UserQuota.resolve_user, lines 1903-1908, of the quota self
ResolveUserCall(c, self) ==
    IF self.user_id = {}
    THEN /\ invocation' = RaisedEarly("UserQuota.resolve_user", self, "TypeError")
         /\ UNCHANGED <<session, calls>>
    ELSE ModelCall(c, "UserQuota.resolve_user", self, Route("GET", "/api/users/" \o self.id),
                   {}, <<>>)

ResolveUser(c, quotas) ==
    /\ invocation.pc = "none"
    /\ calls[c].pc = "idle"
    /\ \E self \in quotas : ResolveUserCall(c, self)
    /\ UNCHANGED <<server_url, base_url, token, user_agent>>
    /\ UNCHANGED <<cli, pager, scope, file, eval>>

\* create_invite, lines 374-383: the JSON payload
CreateInvitePayload(opts, now, pad_year) ==
    LET expiration ==
            IF opts.expires_at = {} THEN "never"
            ELSE "date=" \o IsoText(to_iso_format(
                                        dt_from_delta_or_dt(The(opts.expires_at), now), pad_year))
        first == <<[k |-> "expiresAt", v |-> PyStr(<<expiration>>)]>>
    IN  IF opts.max_uses # {} THEN DictSet(first, "maxUses", PyInt(The(opts.max_uses)))
        ELSE first

\* create_invite, lines 371-386, up to its await
CreateInviteCall(c, opts, now, pad_year) ==
    IF TruthyInt(opts.max_uses) /\ ~(The(opts.max_uses) >= 1)
    THEN /\ invocation' = RaisedEarly("Client.create_invite", opts, "ValueError")
         /\ UNCHANGED <<session, calls>>
    ELSE ModelCall(c, "Client.create_invite", opts, Route("POST", "/api/auth/invites"),
                   {"json"}, CreateInvitePayload(opts, now, pad_year))

CreateInvite(c, options) ==
    /\ invocation.pc = "none"
    /\ calls[c].pc = "idle"
    /\ \E opts \in options, now \in Nows, pad_year \in BOOLEAN :
            CreateInviteCall(c, opts, now, pad_year)
    /\ UNCHANGED <<server_url, base_url, token, user_agent>>
    /\ UNCHANGED <<cli, pager, scope, file, eval>>

\* url.startswith("http://") or url.startswith("https://")
IsAbsolute(url) == Len(url) >= 2 /\ url[1] \in {"http", "https"} /\ url[2] = "://"

\* File.full_url, lines 190-195
full_url(self) ==
    IF self.url # {} /\ The(self.url) # <<>> /\ IsAbsolute(The(self.url))
    THEN Join(The(self.url))
    ELSE base_url \o (IF self.url = {} THEN "None" ELSE Join(The(self.url)))

\* File.read, lines 520-526: the URL is worked out as in full_url and made
\* the path of the route
FileRead(c) ==
    /\ invocation.pc = "none"
    /\ calls[c].pc = "idle"
    /\ LET url == IF file.url # {} /\ The(file.url) # <<>> /\ IsAbsolute(The(file.url))
                  THEN Join(The(file.url))
                  ELSE base_url \o (IF file.url = {} THEN "None" ELSE Join(The(file.url)))
       IN  ModelCall(c, "File.read", file, Route("GET", url), {}, <<>>)
    /\ UNCHANGED <<server_url, base_url, token, user_agent>>
    /\ UNCHANGED <<cli, pager, scope, file, eval>>

\* File.download_password_protected, lines 242-244
DownloadPasswordProtected(c, passwords) ==
    /\ invocation.pc = "none"
    /\ calls[c].pc = "idle"
    /\ \E password \in passwords :
            ModelCall(c, "File.download_password_protected", file, Route("GET", full_url(file)),
                      {"params"}, <<[k |-> "pw", v |-> PyStr(<<password>>)]>>)
    /\ UNCHANGED <<server_url, base_url, token, user_agent>>
    /\ UNCHANGED <<cli, pager, scope, file, eval>>

\* the request of the method completes and the method returns or raises
ModelReturn(c) ==
    /\ invocation.pc = "awaiting"
    /\ calls[c].pc = "responded"
    /\ ModelResume(c)
    /\ UNCHANGED <<server_url, base_url, token, user_agent, session>>
    /\ UNCHANGED <<cli, pager, scope, file, eval>>

OptionalBools == {{}, {TRUE}, {FALSE}}

GetFilesOptions ==
    [page : {1, 2}, per_page : {100}, favorite : OptionalBools,
     search_query : {{}, {""}, {"cat"}}]

TagLists == {{}, {<<>>}, {<<"t1">>}, {<<"t1", "t2">>}}

FileEditOptions ==
    [favorite : OptionalBools, tags : TagLists, max_views : {{}, {0}, {5}},
     original_name : {{}, {"cat.png"}}, password : {{}}, type : {{}, {"image/png"}}]

URLEditOptions ==
    [max_views : {{}, {0}, {5}}, vanity : {{}, {"go"}}, destination : {{}},
     enabled : OptionalBools, password : {{}, {"hunter2"}}]

FileBody ==
    <<"{", Q, "id", Q, ":", Q, "f1", Q, ",", Q, "createdAt", Q, ":", Q,
      "2024-01-01T00:00:00.000000Z", Q, ",", Q, "updatedAt", Q, ":", Q,
      "2024-01-01T00:00:00.000000Z", Q, ",", Q, "favorite", Q, ":", "false", ",",
      Q, "name", Q, ":", Q, "cat.png", Q, ",", Q, "size", Q, ":", "3", ",",
      Q, "type", Q, ":", Q, "image/png", Q, ",", Q, "views", Q, ":", "0", "}">>

\* the UserQuota objects of the caller: the id of the quota, and the id of the
\* user it is assigned to, None when the server sent none
UserQuotas == [id : {"q1"}, user_id : {{}, {""}, {"7"}}]

CreateInviteOptions ==
    [max_uses : {{}, {-1}, {0}, {1}, {3}},
     expires_at : {{}, {Timedelta(3600)},
                   {Datetime([year |-> 2030, month |-> 2, day |-> 28, hour |-> 8, minute |-> 5,
                              second |-> 9, microsecond |-> 0, tzinfo |-> "UTC"])}}]

ModelResponses ==
    [status : {200, 404}, headers : {Headers1("Content-Type", "application/json")},
     body : {FileBody, UrlBody, <<"{", Q, "error", Q, ":", Q, "not found", Q, "}">>}]
    \cup [status : {200}, headers : {Headers1("Content-Type", "application/octet-stream")},
          body : {<<BadByte, "PNG">>}]

\* the File objects of the caller: the id, the url (None, relative to the
\* server, or absolute, in the chunks of a server URL), the tags (the ids of
\* the Tag objects, None when the server sent none)
Files ==
    [id : {"f1"},
     url : {{}, {<<"/u/cat.png">>}, {<<"https", "://", "zipline.example", "/u/cat.png">>},
            {<<"http", "://", "cdn.example", "/u/cat.png">>}},
     tags : {{}, {<<"t1">>}}]

InitOptions ==
    /\ \E server \in ServerURLs : HTTPClientInit(server, Token)
    /\ calls = [c \in Calls |-> IdleCall]
    /\ invocation = NoInvocation
    /\ cli = NoCli
    /\ pager = NoPager
    /\ scope = NoScope
    /\ file \in Files
    /\ eval = NoEval

NextOptions ==
    \/ \E c \in Calls : GetFiles(c, GetFilesOptions)
    \/ \E c \in Calls : UserGetFiles(c, GetFilesOptions, {"1"})
    \/ \E c \in Calls : FileEdit(c, FileEditOptions)
    \/ \E c \in Calls : URLEdit(c, URLEditOptions, {"u1"})
    \/ \E c \in Calls : ResolveUser(c, UserQuotas)
    \/ \E c \in Calls : CreateInvite(c, CreateInviteOptions)
    \/ \E c \in Calls : FileRead(c)
    \/ \E c \in Calls : DownloadPasswordProtected(c, {"hunter2"})
    \/ \E c \in Calls : Respond(c, ModelResponses)
    \/ \E c \in Calls : ModelReturn(c)

SpecOptions == InitOptions /\ [][NextOptions]_vars

\* the payload holds the value under the key, and nothing else under it
Sends(key, value) ==
    \E i \in 1..Len(invocation.payload) :
        /\ invocation.payload[i] = [k |-> key, v |-> value]
        /\ \A j \in 1..Len(invocation.payload) : invocation.payload[j].k = key => j = i

Omits(key) == \A i \in 1..Len(invocation.payload) : invocation.payload[i].k # key

\* the option was given as b
Given(option, b) == option = {b}

\* C22: an option given explicitly is transmitted even when it is False:
\* get_files sends favorite as "true" or "false", File.edit sends favorite and
\* URL.edit sends enabled with the value given; each is omitted only when the
\* option was left as None.
C22_FalseIsTransmitted ==
    invocation.pc # "none" =>
        LET opts == invocation.opts
        IN  /\ invocation.method \in {"Client.get_files", "User.get_files"} =>
                /\ Given(opts.favorite, TRUE) => Sends("favorite", PyStr(<<"true">>))
                /\ Given(opts.favorite, FALSE) => Sends("favorite", PyStr(<<"false">>))
                /\ opts.favorite = {} => Omits("favorite")
            /\ invocation.method = "File.edit" =>
                /\ \A b \in BOOLEAN : Given(opts.favorite, b) => Sends("favorite", PyBool(b))
                /\ opts.favorite = {} => Omits("favorite")
            /\ invocation.method = "URL.edit" =>
                /\ \A b \in BOOLEAN : Given(opts.enabled, b) => Sends("enabled", PyBool(b))
                /\ opts.enabled = {} => Omits("enabled")

---------------------------------------------------------------------------
(* Quotas to assign: PartialQuota.__init__.  An object is the mapping of the
   attributes it has to their values; value is None (the empty set) or an
   integer, max_urls is MISSING, None or an integer. *)

NewObject == [name \in {} |-> {}]

HasAttr(self, name) == name \in DOMAIN self

Constructed(self) == [exc |-> "", self |-> self]
ConstructionRaises(cls) == [exc |-> cls, self |-> NewObject]

MaxUrlsMissing == [missing |-> TRUE, v |-> {}]
MaxUrls(option) == [missing |-> FALSE, v |-> option]

\* PartialQuota.__init__, lines 1773-1785; the class has no __slots__, no
\* class attributes and no __getattr__, so the object starts without
\* attributes and reading one that is not set raises AttributeError
PartialQuotaInit(type, value, max_urls) ==
    LET self == NewObject
    IN  IF ~HasAttr(self, "value") THEN ConstructionRaises("AttributeError")
        ELSE IF TruthyInt(self["value"]) /\ The(self["value"]) < 0
        THEN ConstructionRaises("ValueError")
        ELSE IF ~HasAttr(self, "type") THEN ConstructionRaises("AttributeError")
        ELSE IF self["type"] # {"NONE"} /\ self["value"] = {}
        THEN ConstructionRaises("ValueError")
        ELSE IF ~max_urls.missing /\ max_urls.v # {} /\ The(max_urls.v) <= 0
        THEN ConstructionRaises("ValueError")
        ELSE Constructed([name \in {"type", "value", "max_urls"} |->
                            CASE name = "type" -> {type}
                              [] name = "value" -> value
                              [] OTHER -> max_urls])

PartialQuotaValues == {{}, {-1}, {0}, {5}}

PartialQuotaMaxUrls == {MaxUrlsMissing} \cup {MaxUrls(o) : o \in {{}, {-1}, {0}, {3}}}

InitPartialQuota ==
    /\ ClientIdle
    /\ eval \in {Eval("PartialQuota", [type |-> t, value |-> v, max_urls |-> u]) :
                    t \in QuotaTypes, v \in PartialQuotaValues, u \in PartialQuotaMaxUrls}

PartialQuotaNew ==
    /\ eval.fn = "PartialQuota"
    /\ ~eval.applied
    /\ eval' = [eval EXCEPT
            !.out = PartialQuotaInit(eval.arg.type, eval.arg.value, eval.arg.max_urls),
            !.applied = TRUE]
    /\ UNCHANGED dispatcher_vars
    /\ UNCHANGED <<invocation, cli, pager, scope, file>>

NextPartialQuota == PartialQuotaNew

SpecPartialQuota == InitPartialQuota /\ [][NextPartialQuota]_vars

\* the arguments that the quota refuses
QuotaRefused(arg) ==
    \/ arg.value # {} /\ The(arg.value) < 0
    \/ arg.value = {} /\ arg.type # "NONE"
    \/ ~arg.max_urls.missing /\ arg.max_urls.v # {} /\ The(arg.max_urls.v) < 0

\* C23: PartialQuota(type, value, max_urls) raises ValueError exactly when
\* value is negative, when value is None with a type other than none, or when
\* max_urls is an integer below zero; otherwise the object is constructed.
C23_PartialQuotaValidation ==
    eval.applied =>
        IF QuotaRefused(eval.arg) THEN eval.out.exc = "ValueError" ELSE eval.out.exc = ""

\* C24: UserQuota.resolve_user raises TypeError without a request when
\* user_id is None, and otherwise sends GET /api/users/<user_id>.
C24_ResolvesAssignedUser ==
    invocation.method = "UserQuota.resolve_user" =>
        IF invocation.opts.user_id = {}
        THEN /\ invocation.pc = "done"
             /\ invocation.outcome.kind = "raise"
             /\ invocation.outcome.exc.cls = "TypeError"
             /\ session.log = <<>>
        ELSE /\ Len(session.log) = 1
             /\ session.log[1].method = "GET"
             /\ session.log[1].url = base_url \o "/api/users/" \o The(invocation.opts.user_id)

\* C25: create_invite raises ValueError and sends no request whenever
\* max_uses is given and less than 1, 0 included; for max_uses None or at
\* least 1 it sends exactly one request, whose payload holds maxUses exactly
\* when max_uses is not None.
C25_MaxUsesBelowOneRefused ==
    invocation.method = "Client.create_invite" =>
        LET max_uses == invocation.opts.max_uses
        IN  IF max_uses # {} /\ The(max_uses) < 1
            THEN /\ invocation.pc = "done"
                 /\ invocation.outcome.kind = "raise"
                 /\ invocation.outcome.exc.cls = "ValueError"
                 /\ session.log = <<>>
            ELSE /\ Len(session.log) = 1
                 /\ max_uses # {} => Sends("maxUses", PyInt(The(max_uses)))
                 /\ max_uses = {} => Omits("maxUses")

\* C27: the URL a method requests is one base URL followed by one path; File.read
\* and File.download_password_protected request exactly the full_url of the
\* file, whether the url of the file is absolute or relative to the server.
C27_FileRequestsFullUrl ==
    invocation.method \in {"File.read", "File.download_password_protected"} =>
        /\ Len(session.log) = 1
        /\ session.log[1].url = full_url(file)

---------------------------------------------------------------------------
(* The tags of a file: File.add_tag and File.remove_tag.  A Tag is its id, as
   Tag.__eq__ compares nothing else.  The caller may call again once a call
   has returned or raised. *)

\* the most requests the caller makes
MaxRequests == 2

\* tag in tags
Contains(tags, tag) == \E i \in 1..Len(tags) : tags[i] = tag

\* tags.remove(tag): the first member equal to tag is taken out
Remove(tags, tag) ==
    LET first == CHOOSE i \in 1..Len(tags) : tags[i] = tag /\ \A j \in 1..(i - 1) : tags[j] # tag
    IN  SubSeq(tags, 1, first - 1) \o SubSeq(tags, first + 1, Len(tags))

\* self.tags or []: the list of the object itself unless it is None or empty
TagsOrNew(self) == IF self.tags \in {{}, {<<>>}} THEN <<>> ELSE The(self.tags)

\* what a statement that changes the list `self.tags or []` in place leaves in
\* self.tags: the change, unless the list was a new one
TagsAfter(self, tags) == IF self.tags \in {{}, {<<>>}} THEN self.tags ELSE {tags}

\* the arguments of a call of add_tag or remove_tag, with what the caller can
\* observe around it: the tags of the file and the number of requests before
\* the call, and whether the call repeats one whose request failed
TagCall(method, tag) ==
    [tag |-> tag, before |-> file.tags, requests |-> Len(session.log),
     repeats |-> /\ invocation.pc = "over"
                 /\ invocation.method = method
                 /\ invocation.opts.tag = tag
                 /\ invocation.outcome.kind = "raise"
                 /\ Len(session.log) = invocation.opts.requests + 1,
     favorite |-> {}, tags |-> {}, max_views |-> {}, original_name |-> {}, password |-> {},
     type |-> {}]

\* add_tag, lines 413-420, up to the await in File.edit
AddTagCall(c, tag) ==
    LET tags == TagsOrNew(file)
        opts == TagCall("File.add_tag", tag)
    IN  IF Contains(tags, tag)
        THEN /\ invocation' = RaisedEarly("File.add_tag", opts, "ValueError")
             /\ UNCHANGED <<session, calls, file>>
        ELSE /\ file' = [file EXCEPT !.tags = TagsAfter(file, Append(tags, tag))]
             /\ FileEditCall(c, "File.add_tag", [opts EXCEPT !.tags = {Append(tags, tag)}])

\* remove_tag, lines 462-469, up to the await in File.edit
RemoveTagCall(c, tag) ==
    LET tags == TagsOrNew(file)
        opts == TagCall("File.remove_tag", tag)
    IN  IF ~Contains(tags, tag)
        THEN /\ invocation' = RaisedEarly("File.remove_tag", opts, "ValueError")
             /\ UNCHANGED <<session, calls, file>>
        ELSE /\ file' = [file EXCEPT !.tags = TagsAfter(file, Remove(tags, tag))]
             /\ FileEditCall(c, "File.remove_tag", [opts EXCEPT !.tags = {Remove(tags, tag)}])

AddTag(c, tags) ==
    /\ invocation.pc \in {"none", "over"}
    /\ calls[c].pc = "idle"
    /\ Len(session.log) < MaxRequests
    /\ \E tag \in tags : AddTagCall(c, tag)
    /\ UNCHANGED <<server_url, base_url, token, user_agent>>
    /\ UNCHANGED <<cli, pager, scope, eval>>

RemoveTag(c, tags) ==
    /\ invocation.pc \in {"none", "over"}
    /\ calls[c].pc = "idle"
    /\ Len(session.log) < MaxRequests
    /\ \E tag \in tags : RemoveTagCall(c, tag)
    /\ UNCHANGED <<server_url, base_url, token, user_agent>>
    /\ UNCHANGED <<cli, pager, scope, eval>>

\* the caller has the result of the call, or has caught its exception, and
\* goes on; the File object stays as it is, the File that edit returned is
\* another object
CallerGoesOn(c) ==
    /\ invocation.pc = "done"
    /\ invocation' = [invocation EXCEPT !.pc = "over"]
    /\ calls' = [calls EXCEPT ![c] = IdleCall]
    /\ UNCHANGED <<server_url, base_url, token, user_agent, session>>
    /\ UNCHANGED <<cli, pager, scope, file, eval>>

TagIds == {"t1", "t2"}

TaggedFiles ==
    [id : {"f1"}, url : {{<<"/u/cat.png">>}},
     tags : {{}, {<<>>}, {<<"t1">>}, {<<"t1", "t2">>}}]

TagResponses ==
    [status : {200, 404, 500}, headers : {Headers1("Content-Type", "application/json")},
     body : {FileBody, <<"{", Q, "error", Q, ":", Q, "not found", Q, "}">>}]

InitTags ==
    /\ \E server \in ServerURLs : HTTPClientInit(server, Token)
    /\ calls = [c \in Calls |-> IdleCall]
    /\ invocation = NoInvocation
    /\ cli = NoCli
    /\ pager = NoPager
    /\ scope = NoScope
    /\ file \in TaggedFiles
    /\ eval = NoEval

NextTags ==
    \/ \E c \in Calls : AddTag(c, TagIds)
    \/ \E c \in Calls : RemoveTag(c, TagIds)
    \/ \E c \in Calls : Respond(c, TagResponses)
    \/ \E c \in Calls : ModelReturn(c)
    \/ \E c \in Calls : CallerGoesOn(c)

SpecTags == InitTags /\ [][NextTags]_vars

\* the call raised ValueError without a request
RefusedEarly ==
    /\ invocation.pc \in {"done", "over"}
    /\ invocation.outcome.kind = "raise"
    /\ invocation.outcome.exc.cls = "ValueError"
    /\ Len(session.log) = invocation.opts.requests

\* the call sent one PATCH, with the tag ids in its tags field
SentTags(ids) ==
    /\ Len(session.log) = invocation.opts.requests + 1
    /\ session.log[Len(session.log)].method = "PATCH"
    /\ Sends("tags", PyList([i \in 1..Len(ids) |-> PyStr(<<ids[i]>>)]))

\* the tags of the file before the call, None read as no tags
TagsBefore == IF invocation.opts.before = {} THEN <<>> ELSE The(invocation.opts.before)

\* C26: remove_tag raises ValueError when the tag is not applied and
\* otherwise sends one PATCH whose tags field lists the ids of the file's tags
\* without the removed one, the empty list when it was the only one; add_tag
\* raises ValueError when the tag is applied already and otherwise sends one
\* PATCH whose tags field lists the current ids followed by the new one.
C26_TagsFieldOfThePatch ==
    /\ invocation.method = "File.remove_tag" =>
            IF Contains(TagsBefore, invocation.opts.tag)
            THEN SentTags(SelectSeq(TagsBefore, LAMBDA t : t # invocation.opts.tag))
            ELSE RefusedEarly
    /\ invocation.method = "File.add_tag" =>
            IF Contains(TagsBefore, invocation.opts.tag)
            THEN RefusedEarly
            ELSE SentTags(Append(TagsBefore, invocation.opts.tag))

\* the request of the call failed
RequestFailed ==
    /\ invocation.pc \in {"done", "over"}
    /\ Len(session.log) = invocation.opts.requests + 1
    /\ \/ invocation.pc = "over"
       \/ \E c \in Calls : calls[c].pc = "done" /\ calls[c].outcome.kind = "raise"
    /\ invocation.outcome.kind = "raise"

\* C28: when the request of add_tag or remove_tag fails, the tags of the File
\* object are what they were before the call, and the same call made again is
\* not refused with ValueError.
C28_FailureLeavesTagsAlone ==
    invocation.method \in {"File.add_tag", "File.remove_tag"} =>
        /\ RequestFailed => file.tags = invocation.opts.before
        /\ invocation.opts.repeats => ~RefusedEarly

---------------------------------------------------------------------------
(* Several calls of HTTPClient.request in flight on one dispatcher: each call
   is a coroutine, and the calls interleave at their awaits. *)

\* the number of calls in flight
MaxCalls == 2

ConcurrentCalls == 1..MaxCalls

ConcurrentCallArgs ==
    {[route |-> Route("GET", "/api/user/stats"), kwargs |-> Kwargs({}, NoHeaders)],
     [route |-> Route("POST", "/api/user/urls"),
      kwargs |-> Kwargs({"headers", "json"}, Headers1("X-Zipline-Max-Views", "1"))],
     [route |-> Route("DELETE", "/api/user/files/1"),
      kwargs |-> Kwargs({"headers"}, Headers1("Authorization", "Bearer other"))]}

ConcurrentResponses ==
    [status : {200, 404}, headers : {Headers1("Content-Type", "application/json")},
     body : {<<"{", Q, "id", Q, ":", " ", "42", "}">>}]
    \cup [status : {200}, headers : {Headers1("Content-Type", "text/plain")}, body : {<<"oops">>}]

InitConcurrent ==
    /\ \E server \in ServerURLs : HTTPClientInit(server, Token)
    /\ calls = [c \in ConcurrentCalls |-> IdleCall]
    /\ ClientUnused

NextConcurrent ==
    \/ \E c \in ConcurrentCalls : RequestSend(c, ConcurrentCallArgs)
    \/ \E c \in ConcurrentCalls : Respond(c, ConcurrentResponses)
    \/ \E c \in ConcurrentCalls : RequestComplete(c)

SpecConcurrent == InitConcurrent /\ [][NextConcurrent]_vars

\* the request that call c handed to the session is made of the arguments of
\* c, and the outcome of c of its response
OwnRequestAndOutcome(c) ==
    /\ \A i \in 1..Len(session.log) :
            session.log[i].call = c =>
                /\ session.log[i].method = calls[c].route.method
                /\ session.log[i].url = base_url \o calls[c].route.path
                /\ session.log[i].passed = calls[c].kwargs.keys \ {"headers"}
                /\ \A k \in DOMAIN calls[c].kwargs.headers :
                        k # "Content-Type" \/ "json" \notin calls[c].kwargs.keys
                            => session.log[i].headers[k] = calls[c].kwargs.headers[k]
    /\ calls[c].pc = "done" =>
            calls[c].outcome = ResponseOutcome(calls[c].resp, json_text_or_bytes(calls[c].resp))

\* a step leaves alone the fields of the dispatcher, the arguments of every
\* call that was made, the response of every call that has one, and every
\* call that is over
StepKeepsOthers ==
    /\ base_url' = base_url /\ token' = token /\ user_agent' = user_agent
    /\ \A c \in DOMAIN calls :
        /\ calls[c].pc # "idle" =>
                calls'[c].route = calls[c].route /\ calls'[c].kwargs = calls[c].kwargs
        /\ calls[c].pc \in {"responded", "done"} => calls'[c].resp = calls[c].resp
        /\ calls[c].pc = "done" => calls'[c] = calls[c]

\* C30: with several calls of request in flight on one dispatcher, in any
\* interleaving, the outcome of each call is determined by its own route,
\* arguments and response; no call changes base_url, token or user_agent of
\* the dispatcher, and no call changes the headers mapping its caller passed.
C30_CallsAreIndependent ==
    /\ [](\A c \in DOMAIN calls : OwnRequestAndOutcome(c))
    /\ [][StepKeepsOthers]_vars

\* two calls overlap: the call made second is over, with the outcome of its
\* own response, while the call made first still awaits its completion with
\* another response
C30_Witness ==
    /\ calls[1].pc = "done" /\ calls[2].pc = "responded"
    /\ Len(session.log) = 2
    /\ session.log[1].call = 2 /\ session.log[2].call = 1
    /\ calls[1].outcome.kind = "return"
    /\ calls[2].resp.status = 404
    /\ calls[2].kwargs.headers # NoHeaders

====
